---- MODULE Spec2Model ----
(***************************************************************************)
(* A model of the nskit toolkit: the packed-archive decoders of nsaex.py   *)
(* (bit reader, LZSS, SPB image codec) and the script lexer of nslex.py    *)
(* (configuration preamble, label index, tokenizer, expression evaluator), *)
(* and the XOR codec of nsdec.py.                                          *)
(* A character is its code point and a buffer a sequence of code points;   *)
(* byte strings are sequences of 0..255.  Python indices are 0-based, so    *)
(* element k of a Python sequence is element k+1 of the TLA+ sequence.     *)
(***************************************************************************)
EXTENDS Integers, Sequences, FiniteSets, TLC

VARIABLES
    \* ---- nsaex.spb_to_bmp ----
    spb,          \* the SPB payload handed to spb_to_bmp
    scan,         \* "zigzag" or "linear"
    plane,        \* "bgr" or "rgb"
    spb_res,      \* result of spb_to_bmp, or the "none" record before the call
    \* ---- nsaex.lzss_decompress ----
    lz_pc,        \* "idle" | "run" | "done"
    lz_size,      \* out_size
    lz_br,        \* the BitReader
    lz_ring,      \* RING, 256 cells
    lz_bufpos,    \* bufpos
    lz_out,       \* out
    lz_eof,       \* the EOFError handler ran
    lz_cut,       \* the last back-reference copy left its loop through break
                  \* before its final iteration
    \* ---- nslex.Lexer and its client ----
    dir,          \* the script directory: a function from file names to bytes
    lx,           \* the Lexer object
    call,           \* the last call made on the lexer ("new" after construction)
    tok,          \* the token the last next() or peek() returned
    rv,           \* the value the last read_int() returned
    expr_in,      \* what the script was written from: the token sequence of
                  \* the expression (SpecExpr), the declaration and the
                  \* reference (SpecArr)
    \* ---- nsdec: encrypt, then decrypt_no_convert_with_cp932_check ----
    dec_pc,       \* "idle" | "encrypt" | "decrypt" | "done"
    dec_plain,    \* the bytes of the file handed to encrypt
    dec_dat,      \* the file encrypt writes and the decryption reads
    dec_pos,      \* read position in the file being read
    dec_out,      \* the file the decryption writes
    dec_reads,    \* number of non-empty chunks read so far
    \* ---- nsdia: main and extract_dialogue ----
    dia_pc,       \* "idle" | "start" | "loop" | "done" | "exit"
    dia_no_clean, \* args.no_clean: --no-clean was given
    dia_chunks,   \* out_chunks
    dia_last_nl,  \* last_ended_with_nl
    \* ---- nsaex: main, extract_volume and process_file_bytes ----
    aex_args,     \* the command line options that reach the dispatcher
    aex_entry,    \* the archive entry: name, stored bytes, expanded_size and
                  \* compression_flag
    aex_res,      \* what process_file_bytes returned, or the "none" record
    \* ---- nsaex.extract_volume ----
    vol_file,     \* the volume: its length, whether its header and entry table
                  \* parse, base_offset and the entry table
    vol_opts,     \* only_index and whether save_skips_dir is given
    vol_pc,       \* "idle" | "closed" | "loop" | "returned" | "raised"
    vol_open,     \* the file handle f is open
    vol_i,        \* i of the for loop over the entries
    vol_log,      \* the lines printed, one per entry the loop body handled
    \* ---- nsaex.BitReader driven call by call ----
    bit_br,       \* the reader: data, pos, bitbuf, rem
    bit_call,     \* the last call: its name, n, the reader before it, the
                  \* value returned and whether it raised EOFError
    bit_raised,   \* some call so far raised EOFError
    \* ---- nslex.Lexer._load.read_one on one file ----
    rd_raw,       \* the bytes of the file fh
    rd_em,        \* em, the container mode
    rd_st,        \* the locals of read_one and the number of bytes read
    rd_pc,        \* "idle" | "read" | "done"
    rd_cuts,      \* the file offsets at which the chunks read so far ended
    \* ---- nscli.run: the interpreter loop over lx ----
    run_pc,       \* "idle" | "new" | "loop" | "done" | "exit" (SystemExit left run)
    callstack,    \* callstack: the frames <<i, line, end>> that gosub pushed
    run_last,     \* what the last turn of the loop executed
    run_open      \* the cursors after the gosubs that jumped and have not returned

spbVars == <<spb, scan, plane, spb_res>>
lzVars == <<lz_pc, lz_size, lz_br, lz_ring, lz_bufpos, lz_out, lz_eof, lz_cut>>
lexVars == <<dir, lx, call, tok, rv, expr_in>>
decVars == <<dec_pc, dec_plain, dec_dat, dec_pos, dec_out, dec_reads>>
diaVars == <<dia_pc, dia_no_clean, dia_chunks, dia_last_nl>>
aexVars == <<aex_args, aex_entry, aex_res>>
volVars == <<vol_file, vol_opts, vol_pc, vol_open, vol_i, vol_log>>
bitVars == <<bit_br, bit_call, bit_raised>>
rdVars == <<rd_raw, rd_em, rd_st, rd_pc, rd_cuts>>
runVars == <<run_pc, callstack, run_last, run_open>>
vars == <<spbVars, lzVars, lexVars, decVars, diaVars, aexVars, volVars, bitVars, rdVars, runVars>>

\* ------------------------------------------------------------------------
\* Bounds of the model
\* ------------------------------------------------------------------------
MaxW == 2
MaxH == 3
MaxSpbBody == 3
MaxLzData == 3
MaxLzSize == 4
MaxDecLen == 3
MaxArrIndex == 3
MaxDiaAtoms == 3
MaxPatience == 1
MaxVolEntries == 2
MaxVolLen == 2
MaxBitData == 3
MaxGetBits == 16
MaxRdLen == 4
MaxReadChunk == 2

\* spb_to_bmp looks at the clock every 0x4000 iterations of its plane loop;
\* the images of the model have at most MaxW * MaxH pixels, four of which
\* one iteration can fill, so the period is scaled down with them
CheckPeriod == 2

\* payload bytes the inputs are drawn from
SpbByteSet == {0, 53, 198, 255}
LzByteSet == {0, 2, 160, 255}
DecByteSet == {0, 65, 132, 255}

\* ------------------------------------------------------------------------
\* Arithmetic helpers
\* ------------------------------------------------------------------------
RECURSIVE Pow2(_)
Pow2(n) == IF n = 0 THEN 1 ELSE 2 * Pow2(n - 1)

Min(a, b) == IF a <= b THEN a ELSE b

\* all sequences over S of length 0..n
SeqsUpTo(S, n) == UNION {[1..k -> S] : k \in 0..n}

\* a bit string packed into bytes, first bit in the top bit of the first
\* byte, the last byte padded with zero bits
PackBits(bits) ==
    [n \in 1..((Len(bits) + 7) \div 8) |->
        LET Bit(j) == IF 8 * (n - 1) + j <= Len(bits) THEN bits[8 * (n - 1) + j] ELSE 0
        IN 128 * Bit(1) + 64 * Bit(2) + 32 * Bit(3) + 16 * Bit(4)
           + 8 * Bit(5) + 4 * Bit(6) + 2 * Bit(7) + Bit(8)]

\* the w bits of v, most significant first
BitsOf(v, w) == [k \in 1..w |-> (v \div (2 ^ (w - k))) % 2]

\* ------------------------------------------------------------------------
\* class BitReader
\* ------------------------------------------------------------------------
\* BitReader.__init__: the slice data[start:], pos = 0, bitbuf = 0, rem = 0.
BitReaderNew(data, start) ==
    [data |-> SubSeq(data, start + 1, Len(data)), pos |-> 0, bitbuf |-> 0, rem |-> 0]

\* The while-loop of get_bits.  Only the low `rem` (<= 8) bits of bitbuf are
\* ever read, so bitbuf is kept modulo 2^8.
RECURSIVE GetBitsLoop(_, _, _)
GetBitsLoop(br, n, v) ==
    IF n <= 0 THEN [br |-> br, v |-> v, eof |-> FALSE]
    ELSE IF br.rem = 0 /\ br.pos >= Len(br.data)
    THEN [br |-> br, v |-> 0, eof |-> TRUE]
    ELSE
        LET b1 == IF br.rem = 0
                  THEN [br EXCEPT !.bitbuf = ((br.bitbuf * 256) + br.data[br.pos + 1]) % 256,
                                  !.pos = br.pos + 1,
                                  !.rem = 8]
                  ELSE br
            take == Min(n, b1.rem)
            bits == (b1.bitbuf \div Pow2(b1.rem - take)) % Pow2(take)
        IN GetBitsLoop([b1 EXCEPT !.rem = b1.rem - take], n - take, v * Pow2(take) + bits)

\* the number of bits the reader has handed out
BitsTaken(br) == 8 * br.pos - br.rem

get_bits(br, n) ==
    IF n = 0 THEN [br |-> br, v |-> 0, eof |-> FALSE] ELSE GetBitsLoop(br, n, 0)

\* a get_u8 that always hands out the byte at pos
get_u8_Aligned(br) ==
    IF br.pos >= Len(br.data)
    THEN [br |-> br, v |-> 0, eof |-> TRUE]
    ELSE [br |-> [br EXCEPT !.pos = br.pos + 1], v |-> br.data[br.pos + 1], eof |-> FALSE]

get_u8(br) ==
    IF br.rem = 0
    THEN IF br.pos >= Len(br.data)
         THEN [br |-> br, v |-> 0, eof |-> TRUE]
         ELSE [br |-> [br EXCEPT !.pos = br.pos + 1], v |-> br.data[br.pos + 1], eof |-> FALSE]
    ELSE get_bits(br, 8)

\* A client of the reader: it builds one over some bytes and then calls
\* get_bits and get_u8 in any order, catching EOFError.
BitIdle == bit_br = <<>> /\ bit_call = <<>> /\ bit_raised = FALSE

BitByteSet == {0, 91, 164, 255}
BitStart ==
    /\ \E data \in SeqsUpTo(BitByteSet, MaxBitData) : bit_br = BitReaderNew(data, 0)
    /\ bit_call = <<>> /\ bit_raised = FALSE

BitCalled(op, n, r) ==
    /\ bit_br' = r.br
    /\ bit_call' = [op |-> op, n |-> n, before |-> bit_br, v |-> r.v, eof |-> r.eof]
    /\ bit_raised' = (bit_raised \/ r.eof)

GetBits(n) == bit_br # <<>> /\ BitCalled("get_bits", n, get_bits(bit_br, n))
GetU8 == bit_br # <<>> /\ BitCalled("get_u8", 8, get_u8(bit_br))

\* ------------------------------------------------------------------------
\* lzss_decompress, one iteration of `while len(out) < out_size` per step
\* ------------------------------------------------------------------------
RingInit == [k \in 0..255 |-> 0]

\* the copy loop without its `if len(out) >= out_size: break`
RECURSIVE LzCopy_NoBreak(_, _, _, _, _, _, _)
LzCopy_NoBreak(ring, bufpos, out, offset, i, count, size) ==
    IF i >= count THEN [ring |-> ring, bufpos |-> bufpos, out |-> out, cut |-> FALSE]
    ELSE
        LET ch == ring[(offset + i) % 256]
        IN LzCopy_NoBreak([ring EXCEPT ![bufpos] = ch], (bufpos + 1) % 256,
                          Append(out, ch), offset, i + 1, count, size)

\* a copy loop that moves the cursor on before it stores the byte
RECURSIVE LzCopy_AdvanceFirst(_, _, _, _, _, _, _)
LzCopy_AdvanceFirst(ring, bufpos, out, offset, i, count, size) ==
    IF i >= count THEN [ring |-> ring, bufpos |-> bufpos, out |-> out, cut |-> FALSE]
    ELSE
        LET ch == ring[(offset + i) % 256]
            p1 == (bufpos + 1) % 256
            r1 == [ring EXCEPT ![p1] = ch]
            o1 == Append(out, ch)
        IN IF Len(o1) >= size
           THEN [ring |-> r1, bufpos |-> p1, out |-> o1, cut |-> i + 1 < count]
           ELSE LzCopy_AdvanceFirst(r1, p1, o1, offset, i + 1, count, size)

\* for i in range(count): copy one byte of the back-reference, break when
\* out_size is reached.  Returns the ring, cursor and output after the loop.
RECURSIVE LzCopy(_, _, _, _, _, _, _)
LzCopy(ring, bufpos, out, offset, i, count, size) ==
    IF i >= count THEN [ring |-> ring, bufpos |-> bufpos, out |-> out, cut |-> FALSE]
    ELSE
        LET ch == ring[(offset + i) % 256]
            r1 == [ring EXCEPT ![bufpos] = ch]
            p1 == (bufpos + 1) % 256
            o1 == Append(out, ch)
        IN IF Len(o1) >= size
           THEN [ring |-> r1, bufpos |-> p1, out |-> o1, cut |-> i + 1 < count]
           ELSE LzCopy(r1, p1, o1, offset, i + 1, count, size)

\* the body of the while loop: what one iteration reads and does
LzIter ==
    LET f == get_bits(lz_br, 1) IN
    IF f.eof THEN [kind |-> "eof", br |-> f.br]
    ELSE IF f.v = 1
    THEN LET c == get_u8(f.br) IN
         IF c.eof THEN [kind |-> "eof", br |-> c.br]
         ELSE [kind |-> "literal", br |-> c.br, ch |-> c.v]
    ELSE LET o == get_u8(f.br) IN
         IF o.eof THEN [kind |-> "eof", br |-> o.br]
         ELSE LET c == get_bits(o.br, 4) IN
              IF c.eof THEN [kind |-> "eof", br |-> c.br]
              ELSE [kind |-> "backref", br |-> c.br, offset |-> o.v, count |-> c.v + 2]

LzLiteral ==
    /\ lz_pc = "run" /\ Len(lz_out) < lz_size
    /\ LzIter.kind = "literal"
    /\ lz_br' = LzIter.br
    /\ lz_ring' = [lz_ring EXCEPT ![lz_bufpos] = LzIter.ch]
    /\ lz_bufpos' = (lz_bufpos + 1) % 256
    /\ lz_out' = Append(lz_out, LzIter.ch)
    /\ lz_cut' = FALSE
    /\ UNCHANGED <<lz_pc, lz_size, lz_eof>>

LzBackref ==
    /\ lz_pc = "run" /\ Len(lz_out) < lz_size
    /\ LzIter.kind = "backref"
    /\ LET r == LzCopy(lz_ring, lz_bufpos, lz_out, LzIter.offset, 0, LzIter.count, lz_size)
       IN /\ lz_ring' = r.ring
          /\ lz_bufpos' = r.bufpos
          /\ lz_out' = r.out
          /\ lz_cut' = r.cut
    /\ lz_br' = LzIter.br
    /\ UNCHANGED <<lz_pc, lz_size, lz_eof>>

\* except EOFError: pass
LzEof ==
    /\ lz_pc = "run" /\ Len(lz_out) < lz_size
    /\ LzIter.kind = "eof"
    /\ lz_br' = LzIter.br
    /\ lz_eof' = TRUE
    /\ lz_pc' = "done"
    /\ UNCHANGED <<lz_size, lz_ring, lz_bufpos, lz_out, lz_cut>>

\* the loop condition fails: return bytes(out)
LzReturn ==
    /\ lz_pc = "run" /\ Len(lz_out) >= lz_size
    /\ lz_pc' = "done"
    /\ UNCHANGED <<lz_size, lz_br, lz_ring, lz_bufpos, lz_out, lz_eof, lz_cut>>

\* what one iteration of the while loop reads from the bit reader br
LzRead(br) ==
    LET Count(o, c) ==
          IF c.eof THEN [kind |-> "eof", br |-> c.br]
          ELSE [kind |-> "backref", br |-> c.br, offset |-> o.v, count |-> c.v + 2]
        Offset(o) ==
          IF o.eof THEN [kind |-> "eof", br |-> o.br] ELSE Count(o, get_bits(o.br, 4))
        Literal(c) ==
          IF c.eof THEN [kind |-> "eof", br |-> c.br]
          ELSE [kind |-> "literal", br |-> c.br, ch |-> c.v]
        Flag(f) ==
          IF f.eof THEN [kind |-> "eof", br |-> f.br]
          ELSE IF f.v = 1 THEN Literal(get_u8(f.br))
          ELSE Offset(get_u8(f.br))
    IN Flag(get_bits(br, 1))

\* one pass of the while loop of lzss_decompress; st.done is set when the
\* loop has been left (output full, or the stream ended)
LzPass(st, size) ==
    IF st.done \/ Len(st.out) >= size THEN [st EXCEPT !.done = TRUE]
    ELSE
        LET Copied(it, r) ==
              [br |-> it.br, ring |-> r.ring, bufpos |-> r.bufpos, out |-> r.out,
               done |-> FALSE]
            Step(it) ==
              IF it.kind = "eof" THEN [st EXCEPT !.br = it.br, !.done = TRUE]
              ELSE IF it.kind = "literal"
              THEN [br |-> it.br, ring |-> [st.ring EXCEPT ![st.bufpos] = it.ch],
                    bufpos |-> (st.bufpos + 1) % 256, out |-> Append(st.out, it.ch),
                    done |-> FALSE]
              ELSE Copied(it, LzCopy(st.ring, st.bufpos, st.out, it.offset, 0,
                                     it.count, size))
        IN Step(LzRead(st.br))

\* n passes of the loop; the first half of them is run to its state before
\* the second half starts, which keeps the evaluation shallow
RECURSIVE LzPasses(_, _, _)
LzPasses(st, n, size) ==
    IF n <= 0 THEN st
    ELSE IF n = 1 THEN LzPass(st, size)
    ELSE LET Rest(half) ==
               IF half.done THEN half ELSE LzPasses(half, n - (n \div 2), size)
         IN Rest(LzPasses(st, n \div 2, size))

\* the while loop of lzss_decompress run to its end: every pass that does not
\* leave the loop emits a byte, so out_size + 1 passes leave it
LzRun(br, ring, bufpos, out, size) ==
    LzPasses([br |-> br, ring |-> ring, bufpos |-> bufpos, out |-> out, done |-> FALSE],
             size + 1, size).out

\* a decoder that takes the two bytes at start_offset for a header
lzss_decompress_PastMagic(data, out_size, start_offset) ==
    LzRun(BitReaderNew(data, start_offset + 2), RingInit, 256 - 17, <<>>, out_size)

\* lzss_decompress(data, out_size, start_offset): the bytes returned
lzss_decompress(data, out_size, start_offset) ==
    LzRun(BitReaderNew(data, start_offset), RingInit, 256 - 17, <<>>, out_size)

LzIdle ==
    /\ lz_pc = "idle" /\ lz_size = 0 /\ lz_br = BitReaderNew(<<>>, 0)
    /\ lz_ring = RingInit /\ lz_bufpos = 0 /\ lz_out = <<>>
    /\ lz_eof = FALSE /\ lz_cut = FALSE

\* streams of a literal and a back-reference that reaches into the bytes
\* its own copy stores: the literal lies at cell 239, the copy starts storing
\* at cell 240
LzLit(ch) == <<1>> \o BitsOf(ch, 8)
LzRef(offset, count) == <<0>> \o BitsOf(offset, 8) \o BitsOf(count - 2, 4)
LzOverlaps ==
    { <<>> \o PackBits(LzLit(ch) \o LzRef(offset, 3)) : ch \in {7, 255}, offset \in 238..240 }

LzStart ==
    /\ lz_pc = "run"
    /\ lz_size \in 0..MaxLzSize
    /\ \E data \in SeqsUpTo(LzByteSet, MaxLzData) \cup LzOverlaps :
          lz_br = BitReaderNew(data, 0)
    /\ lz_ring = RingInit
    /\ lz_bufpos = 256 - 17
    /\ lz_out = <<>>
    /\ lz_eof = FALSE
    /\ lz_cut = FALSE

\* ------------------------------------------------------------------------
\* spb_to_bmp
\* ------------------------------------------------------------------------
MAX_W == 8192
MAX_H == 8192
MAX_PIXELS == 4096 * 4096

\* spb_plausible(raw): <<plausible, w, h>>
\* a test that lets a width or height of 0 through
spb_plausible_UpperOnly(raw) ==
    IF Len(raw) < 4 THEN [ok |-> FALSE, w |-> 0, h |-> 0]
    ELSE LET w == raw[1] * 256 + raw[2]
             h == raw[3] * 256 + raw[4]
         IN [ok |-> w <= MAX_W /\ h <= MAX_H /\ w * h <= MAX_PIXELS, w |-> w, h |-> h]

spb_plausible(raw) ==
    IF Len(raw) < 4 THEN [ok |-> FALSE, w |-> 0, h |-> 0]
    ELSE LET Size(w, h) ==
               IF ~(1 <= w /\ w <= MAX_W /\ 1 <= h /\ h <= MAX_H)
               THEN [ok |-> FALSE, w |-> w, h |-> h]
               ELSE IF w * h > MAX_PIXELS THEN [ok |-> FALSE, w |-> w, h |-> h]
               ELSE [ok |-> TRUE, w |-> w, h |-> h]
         IN Size(raw[1] * 256 + raw[2], raw[3] * 256 + raw[4])

\* Python computes the size without a bound; here a size above 2^31 - 1
\* is held at 2^31 - 1, which differs from every expanded_size of the
\* model by as much as the true size does for the comparisons made
expected_24bpp_bmp_size(w, h) ==
    LET row == w * 3
        pad == (4 - (row % 4)) % 4
    IN IF h > 0 /\ row + pad > (2147483647 - 54) \div h THEN 2147483647
       ELSE 14 + 40 + h * (row + pad)

\* a fill that leaves the first cell of the range as it was
FillRange_SkipFirst(tmp, a, b, ch) ==
    [k \in 1..Len(tmp) |-> IF k - 1 > a /\ k - 1 < b THEN ch ELSE tmp[k]]

\* tmp[a:b] = bytes((ch,)) * (b - a), 0-based half-open range
FillRange(tmp, a, b, ch) ==
    [k \in 1..Len(tmp) |-> IF k - 1 >= a /\ k - 1 < b THEN ch ELSE tmp[k]]

\* Bookkeeping for the clock: quiet is the number of pixels stored in tmp
\* since time.perf_counter() was last called in the loop (or since the
\* decoding began), worst the largest value quiet has had.
Stored(st, n) ==
    [st EXCEPT !.quiet = st.quiet + n,
               !.worst = IF st.quiet + n > st.worst THEN st.quiet + n ELSE st.worst]

\* for _ in range(4): read one symbol, then store it unless the plane is full.
\* st = [br, ch, tmp, dest_i, eof, check_counter, deadline, patience, timeout,
\*       quiet, worst]
RECURSIVE SpbGroup(_, _, _, _)
SpbGroup(st, mask, k, pix_count) ==
    IF k >= 4 THEN st
    ELSE
        LET Symbol(r) ==
              LET ch == IF mask = 8 THEN r.v
                        ELSE IF r.v % 2 = 1
                             THEN (st.ch + ((r.v \div 2) + 1)) % 256
                             ELSE (st.ch - (r.v \div 2)) % 256
              IN IF r.eof THEN [st EXCEPT !.br = r.br, !.eof = TRUE]
                 ELSE IF st.dest_i >= pix_count
                 THEN [st EXCEPT !.br = r.br, !.ch = ch]
                 ELSE SpbGroup(Stored([st EXCEPT !.br = r.br,
                                               !.ch = ch,
                                               !.tmp = [st.tmp EXCEPT ![st.dest_i + 1] = ch],
                                               !.dest_i = st.dest_i + 1], 1),
                               mask, k + 1, pix_count)
        IN Symbol(IF mask = 8 THEN get_u8(st.br) ELSE get_bits(st.br, mask))

\* Python's None: no timeout, no wait position, no colour
None == -1

\* The clock of a call of spb_to_bmp: deadline says whether a deadline was
\* set, patience is the number of deadline checks that still find
\* time.perf_counter() <= deadline.
NoDeadline == [deadline |-> FALSE, patience |-> 0, quiet |-> 0, worst |-> 0]

\* check_counter += 1 and the periodic deadline check at the head of the
\* loop body; timeout is set when TimeoutError is raised
DeadlineCheck(st) ==
    LET Tick(cc) ==
          IF st.deadline /\ cc % CheckPeriod = 0
          THEN IF st.patience = 0
               THEN [st EXCEPT !.check_counter = cc, !.quiet = 0, !.timeout = TRUE]
               ELSE [st EXCEPT !.check_counter = cc, !.quiet = 0,
                               !.patience = st.patience - 1]
          ELSE [st EXCEPT !.check_counter = cc]
    IN Tick(st.check_counter + 1)

\* while dest_i < pix_count: one nbit code per iteration
RECURSIVE SpbPlaneLoop(_, _)
SpbPlaneLoop(st0, pix_count) ==
    IF st0.eof \/ st0.timeout \/ st0.dest_i >= pix_count THEN st0
    ELSE
        LET Group(st, nb, m) ==
              LET mask == IF nb.v = 7 THEN m.v + 1 ELSE nb.v + 2
              IN IF m.eof THEN [st EXCEPT !.br = m.br, !.eof = TRUE]
                 ELSE SpbPlaneLoop(SpbGroup([st EXCEPT !.br = m.br], mask, 0, pix_count),
                                   pix_count)
            Code(st, nb) ==
              IF nb.eof THEN [st EXCEPT !.br = nb.br, !.eof = TRUE]
              ELSE IF nb.v = 0
              THEN LET remaining == pix_count - st.dest_i
                       run == IF remaining >= 4 THEN 4 ELSE remaining
                   IN SpbPlaneLoop(Stored([st EXCEPT !.br = nb.br,
                                                   !.tmp = FillRange(st.tmp, st.dest_i, st.dest_i + run, st.ch),
                                                   !.dest_i = st.dest_i + run], run),
                                   pix_count)
              ELSE Group(st, nb, IF nb.v = 7 THEN get_bits(nb.br, 1)
                                 ELSE [br |-> nb.br, v |-> 0, eof |-> FALSE])
            Body(st) == IF st.timeout THEN st ELSE Code(st, get_bits(st.br, 3))
        IN Body(DeadlineCheck(st0))

\* one plane without the EOFError handler's padding of the rest of the plane
SpbPlane_NoPad(br, tmp, pix_count, clk) ==
    LET First(c0) ==
          LET ch0 == IF c0.eof THEN 0 ELSE c0.v
          IN SpbPlaneLoop(Stored([br |-> c0.br, ch |-> ch0, tmp |-> [tmp EXCEPT ![1] = ch0],
                                dest_i |-> 1, eof |-> FALSE, check_counter |-> 0,
                                deadline |-> clk.deadline, patience |-> clk.patience,
                                timeout |-> FALSE, quiet |-> clk.quiet, worst |-> clk.worst], 1),
                          pix_count)
    IN First(get_u8(br))

\* One plane: the first byte (0 on EOFError), the code loop, and the
\* EOFError handler that pads the rest of the plane with the last ch.
\* check_counter starts at 0 in every plane.
SpbPlane(br, tmp, pix_count, clk) ==
    LET Pad(st1) ==
          IF st1.eof /\ st1.dest_i < pix_count
          THEN [st1 EXCEPT !.tmp = FillRange(st1.tmp, st1.dest_i, pix_count, st1.ch)]
          ELSE st1
        First(c0) ==
          LET ch0 == IF c0.eof THEN 0 ELSE c0.v
          IN Pad(SpbPlaneLoop(Stored([br |-> c0.br, ch |-> ch0, tmp |-> [tmp EXCEPT ![1] = ch0],
                                    dest_i |-> 1, eof |-> FALSE, check_counter |-> 0,
                                    deadline |-> clk.deadline, patience |-> clk.patience,
                                    timeout |-> FALSE, quiet |-> clk.quiet,
                                    worst |-> clk.worst], 1),
                              pix_count))
    IN First(get_u8(br))

\* plane_order: the byte of the 3-byte pixel each decoded plane goes to
plane_order(pl) == IF pl = "rgb" THEN <<0, 1, 2>> ELSE <<2, 1, 0>>

\* One row of `rgb[qq] = tmp[p]; p += 1; qq += step`: the writes <<qq, p>>.
RowWrites(qq, p, width, step) ==
    [k \in 1..width |-> <<qq + step * (k - 1), p + (k - 1)>>]

\* scan == "linear": for y, for x: rgb[q] = tmp[p]
LinearWrites(width, height, plane_idx) ==
    [n \in 1..(width * height) |->
        LET y == (n - 1) \div width
            x == (n - 1) % width
        IN <<y * (width * 3) + plane_idx + 3 * x, n - 1>>]

\* the zigzag branch: half_rows iterations of (forward row, reverse row).
\* After the forward row qq = q + 3*width; `q = qq + stride3` is overwritten
\* before it is used; the reverse row starts at qq - 3 and runs down to q,
\* leaving qq = q - 3; then q = qq + 3 + stride3.
RECURSIVE ZigzagPairs(_, _, _, _)
ZigzagPairs(r, q, p, width) ==
    IF r = 0 THEN [w |-> <<>>, q |-> q, p |-> p]
    ELSE
        LET stride3 == width * 3
            fwd == RowWrites(q, p, width, 3)
            qqf == q + 3 * width
            rev == RowWrites(qqf - 3, p + width, width, -3)
            qqr == (qqf - 3) - 3 * width
            rest == ZigzagPairs(r - 1, qqr + 3 + stride3, p + 2 * width, width)
        IN [w |-> fwd \o rev \o rest.w, q |-> rest.q, p |-> rest.p]

ZigzagWrites(width, height, plane_idx) ==
    LET pairs == ZigzagPairs(height \div 2, plane_idx, 0, width)
    IN IF height % 2 = 1
       THEN pairs.w \o RowWrites(pairs.q, pairs.p, width, 3)
       ELSE pairs.w

ScanWrites(sc, width, height, plane_idx) ==
    IF sc = "linear" THEN LinearWrites(width, height, plane_idx)
    ELSE ZigzagWrites(width, height, plane_idx)

\* perform the writes rgb[q] = tmp[p] in order
RECURSIVE ApplyWrites(_, _, _, _)
ApplyWrites(rgb, w, tmp, k) ==
    IF k > Len(w) THEN rgb
    ELSE ApplyWrites([rgb EXCEPT ![w[k][1] + 1] = tmp[w[k][2] + 1]], w, tmp, k + 1)

\* for plane_idx in plane_order: decode a plane into tmp, map it into rgb.
\* Returns the planes as decoded (in decode order), the writes of each plane
\* and the final rgb_data; timeout when a plane raised TimeoutError.
RECURSIVE SpbPlanes(_, _, _, _, _, _, _, _, _)
SpbPlanes(n, br, tmp, rgb, width, height, sc, pl, clk) ==
    IF n > 3 THEN [planes |-> <<>>, ends |-> <<>>, writes |-> <<>>, rgb |-> rgb, br |-> br,
                   timeout |-> FALSE, worst |-> clk.worst]
    ELSE
        LET Cons(d, w, rest) ==
              [planes |-> <<d.tmp>> \o rest.planes,
               ends |-> <<[bit |-> BitsTaken(d.br), eof |-> d.eof]>> \o rest.ends,
               writes |-> <<w>> \o rest.writes,
               rgb |-> rest.rgb,
               br |-> rest.br,
               timeout |-> rest.timeout,
               worst |-> rest.worst]
            Map(d, w) ==
              IF d.timeout
              THEN [planes |-> <<>>, ends |-> <<>>, writes |-> <<>>, rgb |-> rgb,
                    br |-> d.br, timeout |-> TRUE, worst |-> d.worst]
              ELSE Cons(d, w, SpbPlanes(n + 1, d.br, d.tmp, ApplyWrites(rgb, w, d.tmp, 1),
                                        width, height, sc, pl,
                                        [clk EXCEPT !.patience = d.patience,
                                                    !.quiet = d.quiet,
                                                    !.worst = d.worst]))
        IN Map(SpbPlane(br, tmp, width * height, clk),
               ScanWrites(sc, width, height, plane_order(pl)[n]))

LE16(v) == <<v % 256, (v \div 256) % 256>>
LE32(v) == <<v % 256, (v \div 256) % 256, (v \div 65536) % 256, (v \div 16777216) % 256>>
Zeros(n) == [k \in 1..n |-> 0]

\* the rows in the order of the image, top row first
PixelData_TopDown(rgb, width, height) ==
    LET row_bytes == width * 3
        pad == (4 - (row_bytes % 4)) % 4
        dst_row_len == row_bytes + pad
    IN [k \in 1..(dst_row_len * height) |->
          LET y == (k - 1) \div dst_row_len
              c == (k - 1) % dst_row_len
          IN IF c < row_bytes THEN rgb[y * row_bytes + c + 1] ELSE 0]

\* bottom-up rows, each padded with zero bytes to a multiple of 4
PixelData(rgb, width, height) ==
    LET row_bytes == width * 3
        pad == (4 - (row_bytes % 4)) % 4
        dst_row_len == row_bytes + pad
    IN [k \in 1..(dst_row_len * height) |->
          LET y == (k - 1) \div dst_row_len
              c == (k - 1) % dst_row_len
          IN IF c < row_bytes THEN rgb[(height - 1 - y) * row_bytes + c + 1] ELSE 0]

BmpHeader(width, height, npix) ==
    <<66, 77>> \o LE32(14 + 40 + npix) \o Zeros(4) \o LE32(14 + 40)
    \o LE32(40) \o LE32(width) \o LE32(height) \o LE16(1) \o LE16(24) \o Zeros(24)

\* spb_to_bmp(spb, timeout_ms, scan, plane) under a clock of the given
\* patience: the BMP, or the exception raised
spb_to_bmp(data, timeout_ms, sc, pl, patience) ==
    IF Len(data) < 4 THEN [status |-> "ValueError"]
    ELSE
        LET width == data[1] * 256 + data[2]
            height == data[3] * 256 + data[4]
            pix_count == width * height
        IN IF ~(1 <= width /\ width <= MAX_W /\ 1 <= height /\ height <= MAX_H)
           THEN [status |-> "ValueError"]
           ELSE IF pix_count <= 0 \/ pix_count > MAX_PIXELS
           THEN [status |-> "ValueError"]
           ELSE
             LET Bmp(r, pixel_data) ==
                   [status |-> "ok", width |-> width, height |-> height,
                    planes |-> r.planes, ends |-> r.ends, writes |-> r.writes,
                    rgb |-> r.rgb, worst |-> r.worst,
                    pixel_data |-> pixel_data,
                    bmp |-> BmpHeader(width, height, Len(pixel_data)) \o pixel_data]
                 Pixels(r) == IF r.timeout THEN [status |-> "TimeoutError", worst |-> r.worst]
                              ELSE Bmp(r, PixelData(r.rgb, width, height))
             IN Pixels(SpbPlanes(1, BitReaderNew(data, 4), Zeros(pix_count),
                                 Zeros(pix_count * 3), width, height, sc, pl,
                                 [deadline |-> timeout_ms # None /\ timeout_ms > 0,
                                  patience |-> patience, quiet |-> 0, worst |-> 0]))

SpbNone == [status |-> "none"]

\* an SPB file of one colour: each of the three planes is coded as its first
\* byte ch and one group with nbit = 0
PlaneOfOneRun(ch) == [k \in 1..11 |-> IF k <= 8 THEN (ch \div (2 ^ (8 - k))) % 2 ELSE 0]
SingleColourSpb(w, h, ch) ==
    <<0, w, 0, h>> \o PackBits(PlaneOfOneRun(ch) \o PlaneOfOneRun(ch) \o PlaneOfOneRun(ch))

SpbIdle == spb = <<>> /\ scan = "zigzag" /\ plane = "bgr" /\ spb_res = SpbNone

SpbStart ==
    /\ \/ \E w \in 0..MaxW, h \in 0..MaxH, body \in SeqsUpTo(SpbByteSet, MaxSpbBody) :
             spb = <<0, w, 0, h>> \o body
       \/ \E tail \in {<<>>, <<0>>} : spb = SingleColourSpb(2, 1, 255) \o tail
    /\ scan \in {"zigzag", "linear"}
    /\ plane \in {"bgr", "rgb"}
    /\ spb_res = SpbNone

\* the call spb_to_bmp(spb, timeout_ms=None, scan=scan, plane=plane)
SpbConvert ==
    /\ spb_res = SpbNone
    /\ spb_res' = spb_to_bmp(spb, None, scan, plane, 0)
    /\ UNCHANGED <<spb, scan, plane, lzVars, lexVars, decVars, diaVars, aexVars, volVars, bitVars, rdVars, runVars>>

\* the call spb_to_bmp(spb, timeout_ms=1, scan=scan, plane=plane) under a
\* clock that passes the deadline after some number of looks at it
SpbConvertTimed ==
    /\ spb_res = SpbNone
    /\ \E patience \in 0..MaxPatience : spb_res' = spb_to_bmp(spb, 1, scan, plane, patience)
    /\ UNCHANGED <<spb, scan, plane, lzVars, lexVars, decVars, diaVars, aexVars, volVars, bitVars, rdVars, runVars>>

\* ------------------------------------------------------------------------
\* nslex: characters.  A character is its code point, a buffer a sequence
\* of code points.
\* ------------------------------------------------------------------------
END_NONE == 0
END_COMMA == 1
END_1BYTE == 2

INV == 0
PLUS == 1
MINUS == 2
MULT == 3
DIV == 4
MOD == 5

LF == 10
CR == 13
TAB == 9
SPACE == 32
NUL == 0
ChBang == 33         \* !
ChQuote == 34        \* "
ChHash == 35         \* #
ChDollar == 36       \* $
ChPercent == 37      \* %
ChLParen == 40       \* (
ChRParen == 41       \* )
ChStar == 42         \* *
ChPlus == 43         \* +
ChComma == 44        \* ,
ChMinus == 45        \* -
ChSlash == 47        \* /
ChColon == 58        \* :
ChSemi == 59         \* ;
ChLt == 60           \* <
ChEq == 61           \* =
ChGt == 62           \* >
ChQuestion == 63     \* ?
ChAt == 64           \* @
ChLBracket == 91     \* [
ChBackslash == 92    \* \
ChRBracket == 93     \* ]
ChCaret == 94        \* ^
ChUnderscore == 95   \* _
ChTilde == 126       \* ~
ChMe == 12417        \* U+3081, HIRAGANA LETTER ME (cp932 bytes 82 DF)

StrMode == <<109, 111, 100, 101>>           \* "mode"
Str800 == <<56, 48, 48>>                    \* "800"
Str400 == <<52, 48, 48>>                    \* "400"
Str320 == <<51, 50, 48>>                    \* "320"
StrW720 == <<119, 55, 50, 48>>              \* "w720"
StrValue == <<118, 97, 108, 117, 101>>      \* "value"
StrMod == <<109, 111, 100>>                 \* "mod"
StrLangjp == <<108, 97, 110, 103, 106, 112>>  \* "langjp"
StrLangen == <<108, 97, 110, 103, 101, 110>>  \* "langen"
StrNumalias == <<110, 117, 109, 97, 108, 105, 97, 115>>  \* "numalias"
StrDim == <<100, 105, 109>>                     \* "dim"
StrGoto == <<103, 111, 116, 111>>               \* "goto"
StrJump == <<106, 117, 109, 112>>               \* "jump"
StrGosub == <<103, 111, 115, 117, 98>>          \* "gosub"
StrReturn == <<114, 101, 116, 117, 114, 110>>   \* "return"
StrIf == <<105, 102>>                           \* "if"
StrCaretAtCaret == <<94, 64, 94>>           \* "^@^"
StrCaretTildeC == <<94, 126, 99>>           \* "^~c"

\* s[i], 0-based.  Every loaded buffer ends with LF, which stops each scan
\* of the lexer, so an index past the end is not reached; None stands there.
At(s, i) == IF i >= 0 /\ i < Len(s) THEN s[i + 1] ELSE None

is_a(c) == (65 <= c /\ c <= 90) \/ (97 <= c /\ c <= 122)
is_d(c) == 48 <= c /\ c <= 57
is_id0(c) == is_a(c) \/ c = ChUnderscore
is_id(c) == is_a(c) \/ is_d(c) \/ c = ChUnderscore

\* str.isalpha / str.isdigit / str.lower on the characters of the model:
\* the ASCII ones and ChMe, which is a letter without case.
IsAlpha(c) == is_a(c) \/ c = ChMe
IsDigit(c) == is_d(c)
Lower(c) == IF 65 <= c /\ c <= 90 THEN c + 32 ELSE c
LowerSeq(s) == [k \in 1..Len(s) |-> Lower(s[k])]

\* s.startswith(pre, i)
StartsWith(s, pre, i) ==
    /\ i + Len(pre) <= Len(s)
    /\ \A k \in 1..Len(pre) : s[i + k] = pre[k]

\* `sub in s`
Contains(s, sub) == \E i \in 0..Len(s) : StartsWith(s, sub, i)

RECURSIVE skip_ws(_, _)
skip_ws(s, i) ==
    IF i < Len(s) /\ At(s, i) \in {SPACE, TAB} THEN skip_ws(s, i + 1) ELSE i

\* Slice(s, a, b) is s[a:b]
Slice(s, a, b) == SubSeq(s, a + 1, Min(b, Len(s)))

\* bitwise exclusive or on bytes
RECURSIVE XorBits(_, _, _)
XorBits(a, b, n) ==
    IF n = 0 THEN 0
    ELSE 2 * XorBits(a \div 2, b \div 2, n - 1) + ((a + b) % 2)
Xor8(a, b) == XorBits(a, b, 8)

\* Enc.bytes
CP932 == 932
UTF8 == 65001
EncBytes(code, c) ==
    IF code = UTF8 THEN 1 ELSE IF (c \div 128) % 2 = 1 THEN 2 ELSE 1

\* ------------------------------------------------------------------------
\* Lexer._load
\* ------------------------------------------------------------------------
Magic == <<121, 87, 13, 128, 4>>      \* [0x79, 0x57, 0x0D, 0x80, 0x04]
keytbl(b) == b                        \* bytes(range(256))

\* the byte transform of read_one for container mode em
Transform(em, b, mc) ==
    IF em = 1 THEN Xor8(b, 132)
    ELSE IF em = 2 THEN Xor8(b, Magic[mc + 1]) % 256
    ELSE IF em = 3 THEN Xor8(keytbl(b), 132) % 256
    ELSE b

\* read_one: the body of `for b in chunk` for the byte at position k (the
\* chunks of fh.read are consumed one after the other with the loop state
\* kept across them).  st = [k, mc, out, nl, cr, newlab, num_labels]
ReadOneStep(data, em, st) ==
    LET Store(b, s1) ==
          IF b = CR THEN [s1 EXCEPT !.cr = TRUE]
          ELSE IF b = LF THEN [s1 EXCEPT !.out = Append(s1.out, LF), !.nl = TRUE, !.cr = FALSE]
          ELSE [s1 EXCEPT !.out = Append(s1.out, b),
                          !.nl = IF b \in {SPACE, TAB} THEN s1.nl ELSE FALSE]
        Byte(b) ==
          LET mc1 == IF em = 2 THEN (st.mc + 1) % 5 ELSE st.mc
              flush == st.cr /\ b # LF
              out1 == IF flush THEN Append(st.out, LF) ELSE st.out
              nl1 == IF flush THEN TRUE ELSE st.nl
              cr1 == IF flush THEN FALSE ELSE st.cr
              head == b = ChStar /\ nl1 /\ ~st.newlab
          IN Store(b, [st EXCEPT !.k = st.k + 1, !.mc = mc1, !.out = out1, !.nl = nl1,
                                 !.cr = cr1, !.newlab = head,
                                 !.num_labels = IF head THEN st.num_labels + 1
                                                ELSE st.num_labels])
    IN Byte(Transform(em, data[st.k], st.mc))

\* an end of file that forgets the pending CR
ReadOneEnd_NoFlush(st) == [st EXCEPT !.out = st.out \o <<LF>>]

\* the empty chunk: the pending CR, break, and the final LF
ReadOneEnd(st) ==
    [st EXCEPT !.out = (IF st.cr THEN Append(st.out, LF) ELSE st.out) \o <<LF>>]

\* the bytes of the file in order, then the end of the file
RECURSIVE ReadOneLoop(_, _, _)
ReadOneLoop(data, em, st) ==
    IF st.k > Len(data)
    THEN ReadOneEnd(st)
    ELSE ReadOneLoop(data, em, ReadOneStep(data, em, st))

read_one(data, em, num_labels) ==
    ReadOneLoop(data, em,
                [k |-> 1, mc |-> 0, out |-> <<>>, nl |-> TRUE, cr |-> FALSE,
                 newlab |-> FALSE, num_labels |-> num_labels])

\* read_one chunk by chunk.  fh.read(4096) hands over between one byte and
\* a whole chunk (MaxReadChunk bytes here) while bytes are left, and the
\* empty chunk after them.
RdIdle == rd_raw = <<>> /\ rd_em = 0 /\ rd_st = <<>> /\ rd_pc = "idle" /\ rd_cuts = <<>>

\* `for b in chunk` over a chunk of n bytes
RECURSIVE ReadChunkLoop(_, _, _, _)
ReadChunkLoop(data, em, st, n) ==
    IF n = 0 THEN st ELSE ReadChunkLoop(data, em, ReadOneStep(data, em, st), n - 1)

ReadChunk(n) ==
    /\ rd_pc = "read" /\ rd_st.k + n - 1 <= Len(rd_raw)
    /\ rd_st' = ReadChunkLoop(rd_raw, rd_em, rd_st, n)
    /\ rd_cuts' = Append(rd_cuts, rd_st.k + n - 1)
    /\ UNCHANGED <<rd_raw, rd_em, rd_pc>>

ReadEof ==
    /\ rd_pc = "read" /\ rd_st.k > Len(rd_raw)
    /\ rd_st' = ReadOneEnd(rd_st)
    /\ rd_pc' = "done"
    /\ UNCHANGED <<rd_raw, rd_em, rd_cuts>>

\* the files: the bytes that the transform of mode em turns into CR, LF,
\* '*' or 'a'
RdChars == {CR, LF, ChStar, 97}
RdStart ==
    /\ rd_em \in 0..3
    /\ \E t \in SeqsUpTo(RdChars, MaxRdLen) :
          rd_raw = [k \in 1..Len(t) |-> Transform(rd_em, t[k], (k - 1) % 5)]
    /\ rd_st = [k |-> 1, mc |-> 0, out |-> <<>>, nl |-> TRUE, cr |-> FALSE,
                newlab |-> FALSE, num_labels |-> 0]
    /\ rd_pc = "read" /\ rd_cuts = <<>>

\* data.decode("cp932", "ignore") / data.decode("utf-8", "ignore") for the
\* files of the model, which hold ASCII bytes and the cp932 pair 82 DF:
\* an ASCII byte is its own character, the pair is ChMe, and a byte above
\* 0x7F outside such a pair is dropped.
Decode(data, code) ==
    LET lead(k) == code = CP932 /\ data[k] = 130 /\ k < Len(data) /\ data[k + 1] = 223
        ch == [k \in 1..Len(data) |->
                 IF data[k] < 128 THEN data[k] ELSE IF lead(k) THEN ChMe ELSE None]
    IN SelectSeq(ch, LAMBDA c : c # None)

\* the probe order of _load: <<name, mode, encoding>>
Tries == << <<"0.txt", 0, CP932>>, <<"0.utf", 0, UTF8>>, <<"00.txt", 0, CP932>>,
            <<"nscr_sec.dat", 2, CP932>>, <<"nscript.___", 3, CP932>>,
            <<"nscript.dat", 1, CP932>>, <<"pscript.dat", 1, UTF8>> >>

\* os.path.splitext of the names of Tries
ExtOf(name) == IF name = "0.utf" THEN ".utf" ELSE ".txt"

\* f"{i}{ext}" and f"{i:02d}{ext}"
Pat1(i, ext) == ToString(i) \o ext
Pat2(i, ext) == (IF i < 10 THEN "0" \o ToString(i) ELSE ToString(i)) \o ext

\* for i in range(1, 100): for pat in (f"{i}{ext}", f"{i:02d}{ext}"): the
\* names probed, in probe order (198 probes; for i >= 10 both patterns give
\* the same name), restricted to the files that exist
SeriesNames(d, ext) ==
    SelectSeq([k \in 1..198 |-> IF k % 2 = 1 THEN Pat1((k + 1) \div 2, ext)
                                ELSE Pat2(k \div 2, ext)],
              LAMBDA nm : nm \in DOMAIN d)

\* bufs.append(read_one(fh, 0)) for each probe that found a file
RECURSIVE LoadSeries(_, _, _, _)
LoadSeries(d, names, k, st) ==
    IF k > Len(names) THEN st
    ELSE LET Append1(r) ==
               LoadSeries(d, names, k + 1,
                          [data |-> st.data \o r.out, num_labels |-> r.num_labels,
                           segs |-> st.segs + 1])
         IN Append1(read_one(d[names[k]], 0, st.num_labels))

\* _load(path): d is the directory, a function from file names to contents.
\* Returns the buffer, the encoding and the label-head count, or rc = -1.
load(d) ==
    LET found == {k \in 1..Len(Tries) : Tries[k][1] \in DOMAIN d} IN
    IF found = {} THEN [rc |-> -1]
    ELSE
        LET Result(code, res) ==
              [rc |-> 0, buf |-> Decode(res.data, code), code |-> code,
               num_labels |-> res.num_labels]
            Pick(mode, code, one, ser) ==
              Result(code,
                     IF mode > 0 THEN [data |-> one.out, num_labels |-> one.num_labels]
                     ELSE IF ser.segs = 0
                     THEN [data |-> one.out, num_labels |-> one.num_labels]
                     ELSE [data |-> ser.data, num_labels |-> ser.num_labels])
            Read(name, mode, code) ==
              Pick(mode, code, read_one(d[name], mode, 0),
                   LoadSeries(d, SeriesNames(d, ExtOf(name)), 1,
                              [data |-> <<>>, num_labels |-> 0, segs |-> 0]))
            Try(k) ==
              Read(Tries[k][1], Tries[k][2], IF Tries[k][3] = UTF8 THEN UTF8 ELSE CP932)
        IN Try(CHOOSE x \in found : \A y \in found : x <= y)

\* ------------------------------------------------------------------------
\* class Lexer: construction, configuration preamble, label index
\* ------------------------------------------------------------------------
\* Var()
NewVar == [num |-> 0, str |-> <<>>, has_str |-> FALSE, lim |-> FALSE, lo |-> 0, hi |-> 0]

\* Array(): num_dim = 0, dim = [0] * 20, data = []
NewArray == [no |-> 0, num_dim |-> 0, dim |-> [k \in 0..19 |-> 0], data |-> <<>>]

\* Lexer.__init__, with expand_in_text as the client sets it before open()
\* (nscli.py:360, nsdia.py:38).  store holds the Var slots that were written;
\* every other slot of vars/ext is a fresh Var().  arrays is the chain that
\* starts at arr_root.
LexerNew(expand) ==
    [expand_in_text |-> expand, code |-> CP932, buf |-> <<>>, i |-> 0, line |-> 0,
     end |-> END_NONE, labels |-> <<>>, num_labels |-> 0, store |-> <<>>,
     var_rng |-> 0, glob_border |-> 0, sw |-> 640, sh |-> 480, lang |-> 1,
     click |-> None, wait_at |-> None, text_mode |-> FALSE, text_marker |-> 0,
     arrays |-> <<NewArray>>, arr_cur |-> FALSE, num_alias |-> <<>>,
     pons |-> FALSE, cur_color |-> None, err |-> FALSE]

\* num(j) of _read_cfg: skip blanks, read decimal digits
RECURSIVE Digits(_, _, _)
Digits(s, j, v) ==
    IF j < Len(s) /\ IsDigit(At(s, j)) THEN Digits(s, j + 1, v * 10 + (At(s, j) - 48))
    ELSE [v |-> v, j |-> j]
CfgNum(s, j) == Digits(s, skip_ws(s, j), 0)

\* first index >= i holding c, or n
RECURSIVE FindChar(_, _, _)
FindChar(s, i, c) ==
    IF i < Len(s) /\ At(s, i) # c THEN FindChar(s, i + 1, c) ELSE i

\* while i < n and s[i] in ", \t": i += 1
RECURSIVE SkipCommaWs(_, _)
SkipCommaWs(s, i) ==
    IF i < Len(s) /\ At(s, i) \in {ChComma, SPACE, TAB} THEN SkipCommaWs(s, i + 1) ELSE i

\* the tail of one iteration of the option loop:
\*   i = skip_ws(s, i); if not cfg and s[i] != ",": break; if s[i] == ",": i += 1
\* c = [sw, sh, glob_border, var_rng]
RECURSIVE CfgLoop(_, _, _, _)
CfgTail(s, i0, cfg, c) ==
    LET i == skip_ws(s, i0) IN
    IF ~cfg /\ At(s, i) # ChComma THEN c
    ELSE CfgLoop(s, IF At(s, i) = ChComma THEN i + 1 ELSE i, cfg, c)

\* while i < n and s[i] != "\n": one option per iteration
CfgLoop(s, i0, cfg, c) ==
    IF ~(i0 < Len(s) /\ At(s, i0) # LF) THEN c
    ELSE
        LET i == skip_ws(s, i0)
            ch == At(s, i)
        IN IF StartsWith(s, StrMode, i)
           THEN IF StartsWith(s, Str800, i + 4)
                THEN CfgTail(s, i + 7, cfg, [c EXCEPT !.sw = 800, !.sh = 600])
                ELSE IF StartsWith(s, Str400, i + 4)
                THEN CfgTail(s, i + 7, cfg, [c EXCEPT !.sw = 400, !.sh = 300])
                ELSE IF StartsWith(s, Str320, i + 4)
                THEN CfgTail(s, i + 7, cfg, [c EXCEPT !.sw = 320, !.sh = 240])
                ELSE IF StartsWith(s, StrW720, i + 4)
                THEN CfgTail(s, i + 8, cfg, [c EXCEPT !.sw = 1280, !.sh = 720])
                ELSE c
           ELSE IF ch \in {103, 71} \/ StartsWith(s, StrValue, i)
           THEN LET r == CfgNum(s, IF ch \in {103, 71} THEN i + 1 ELSE i + 5)
                IN CfgTail(s, r.j, cfg, [c EXCEPT !.glob_border = r.v])
           ELSE IF ch \in {118, 86}
           THEN LET r == CfgNum(s, i + 1)
                IN CfgTail(s, r.j, cfg, [c EXCEPT !.var_rng = r.v])
           ELSE IF ch \in {115, 83}
           THEN LET w == CfgNum(s, i + 1)
                    h == CfgNum(s, SkipCommaWs(s, w.j))
                IN CfgTail(s, h.j, cfg, [c EXCEPT !.sw = w.v, !.sh = h.v])
           ELSE IF ch \in {108, 76}
           THEN CfgTail(s, CfgNum(s, i + 1).j, cfg, c)
           ELSE IF ch # ChComma THEN c
           ELSE CfgTail(s, i, cfg, c)

\* _read_cfg: the option line is the line after the one holding the first ';'
read_cfg(L) ==
    LET s == L.buf
        n == Len(s)
        c0 == [sw |-> L.sw, sh |-> L.sh, glob_border |-> 200, var_rng |-> 4096]
        Set(c) ==
          [L EXCEPT !.sw = c.sw, !.sh = c.sh, !.glob_border = c.glob_border,
                    !.var_rng = c.var_rng]
        Options(i1, i2) ==
          LET cfg == i2 < n /\ At(s, i2) = ChDollar
          IN Set(IF i1 >= n THEN c0 ELSE CfgLoop(s, IF cfg THEN i2 + 1 ELSE i2, cfg, c0))
        Line(i1) == Options(i1, skip_ws(s, i1 + 1))
    IN Line(FindChar(s, FindChar(s, 0, ChSemi), LF))

\* the identifier scan shared by _read_label_name (is_id)
RECURSIVE ScanId(_, _)
ScanId(s, j) == IF j < Len(s) /\ is_id(At(s, j)) THEN ScanId(s, j + 1) ELSE j

\* _read_label_name(i): "*" followed by the lowercased identifier
read_label_name(s, i) ==
    LET j == skip_ws(s, i + 1)
    IN <<ChStar>> \o LowerSeq(Slice(s, j, ScanId(s, j)))

\* _after_label(i): the scan uses str.isalpha / str.isdigit
RECURSIVE ScanAlnum(_, _)
ScanAlnum(s, j) ==
    IF j < Len(s) /\ (IsAlpha(At(s, j)) \/ IsDigit(At(s, j)) \/ At(s, j) = ChUnderscore)
    THEN ScanAlnum(s, j + 1) ELSE j
after_label(s, i) == ScanAlnum(s, skip_ws(s, i + 1))

\* while i + 1 < n and s[i + 1] == "*": i += 1
RECURSIVE SkipStars(_, _)
SkipStars(s, i) ==
    IF i + 1 < Len(s) /\ At(s, i + 1) = ChStar THEN SkipStars(s, i + 1) ELSE i

\* the body position _index_labels gives the label whose '*' is at i
LabelStart(s, i) ==
    LET j == after_label(s, i)
        j1 == IF j < Len(s) /\ At(s, j) = LF THEN j + 1 ELSE j
    IN skip_ws(s, j1)

\* the while loop of _index_labels
RECURSIVE IndexLoop(_, _, _, _)
IndexLoop(s, i0, line, labs) ==
    IF i0 >= Len(s) THEN labs
    ELSE
        LET i == skip_ws(s, i0) IN
        IF i < Len(s) /\ At(s, i) = ChStar
        THEN LET Add(j, li) ==
                   IndexLoop(s, li.start,
                             IF j < Len(s) /\ At(s, j) = LF THEN line + 1 ELSE line,
                             Append(labs, li))
                 Header(h) ==
                   Add(after_label(s, h),
                       [name |-> Tail(read_label_name(s, h)), hdr |-> h, lines |-> 1,
                        sline |-> line, start |-> LabelStart(s, h)])
             IN Header(SkipStars(s, i))
        ELSE LET labs1 == IF labs = <<>> THEN labs
                          ELSE [labs EXCEPT ![Len(labs)].lines = @ + 1]
                 Skip(e) ==
                   IndexLoop(s, IF e < Len(s) THEN e + 1 ELSE e,
                             IF e < Len(s) THEN line + 1 ELSE line, labs1)
             IN Skip(FindChar(s, i, LF))

\* Label(): the sentinel appended last
Sentinel == [name |-> <<>>, hdr |-> 0, lines |-> 0, sline |-> 0, start |-> -1]

index_labels(L) ==
    LET Set(labs) == [L EXCEPT !.labels = labs, !.num_labels = Len(labs) - 1]
    IN Set(Append(IndexLoop(L.buf, 0, 0, <<>>), Sentinel))

\* _line_at(pos): the number of LF in buf[0:min(pos, len)]
line_at(s, pos) == Cardinality({k \in 1..Min(pos, Len(s)) : s[k] = LF})

seek(L, pos) == [L EXCEPT !.i = pos, !.line = line_at(L.buf, pos), !.end = END_NONE]

\* a lookup that scans the labels from the first one on
find_label_First(L, name) ==
    LET hits == {k \in 1..L.num_labels : L.labels[k].name = LowerSeq(name)}
    IN IF hits = {} THEN 0 ELSE CHOOSE k \in hits : \A m \in hits : k <= m

\* _find_label: index (1-based) of the last label of that name, 0 if absent
find_label(L, name) ==
    LET hits == {k \in 1..L.num_labels : L.labels[k].name = LowerSeq(name)}
    IN IF hits = {} THEN 0 ELSE CHOOSE k \in hits : \A m \in hits : m <= k

\* a jump that clears the end flags before it looks the label up
jump_label_ClearEnd(L, name) ==
    LET Jump(k) == IF k = 0 THEN [L EXCEPT !.err = TRUE, !.end = END_NONE]
                   ELSE seek(L, L.labels[k].start)
    IN Jump(find_label(L, name))

\* jump_label: _err raises SystemExit when the label is not found
jump_label(L, name) ==
    LET Jump(k) == IF k = 0 THEN [L EXCEPT !.err = TRUE] ELSE seek(L, L.labels[k].start)
    IN Jump(find_label(L, name))

\* open(path) for the directory d; rc = -1 when there is no container
open(L, d) ==
    LET Pons(L1) ==
          [L1 EXCEPT !.pons = Contains(L1.buf, StrCaretAtCaret)
                               \/ Contains(LowerSeq(L1.buf), StrCaretTildeC)]
        Loaded(ld) ==
          IF ld.rc < 0 THEN [rc |-> -1, L |-> L]
          ELSE [rc |-> 0,
                L |-> seek(index_labels(Pons(read_cfg([L EXCEPT !.buf = ld.buf,
                                                                !.code = ld.code,
                                                                !.num_labels = ld.num_labels]))),
                           0)]
    IN Loaded(load(d))

\* ------------------------------------------------------------------------
\* class Lexer: integers, arrays, the expression evaluator
\* ------------------------------------------------------------------------
Abs(a) == IF a < 0 THEN -a ELSE a

\* int(a / b), b # 0: the quotient truncated toward zero
TruncDiv(a, b) ==
    IF (a < 0) = (b < 0) THEN Abs(a) \div Abs(b) ELSE -(Abs(a) \div Abs(b))

\* Python's a % b, b # 0: the remainder takes the sign of b
PyMod(a, b) ==
    LET r == Abs(a) % Abs(b)
    IN IF r = 0 THEN 0
       ELSE IF (a < 0) = (b < 0) THEN (IF b < 0 THEN -r ELSE r)
       ELSE (IF b < 0 THEN r - Abs(b) ELSE Abs(b) - r)

\* _calc
calc(a, op, b) ==
    IF op = PLUS THEN a + b
    ELSE IF op = MINUS THEN a - b
    ELSE IF op = MULT THEN a * b
    ELSE IF op = DIV THEN (IF b # 0 THEN TruncDiv(a, b) ELSE 0)
    ELSE IF op = MOD THEN (IF b # 0 THEN PyMod(a, b) ELSE 0)
    ELSE a

\* _vd(no): the Var slot, a fresh Var() unless it was written
vd(L, no) == IF no \in DOMAIN L.store THEN L.store[no] ELSE NewVar

\* _eat_comma(i) with self.end: blanks, at most one comma, blanks
eat_comma(s, i0, end) ==
    LET Comma(i) ==
          IF i < Len(s) /\ At(s, i) = ChComma
          THEN [i |-> skip_ws(s, i + 1), end |-> IF end % 2 = 1 THEN end ELSE end + END_COMMA]
          ELSE [i |-> i, end |-> end]
    IN Comma(skip_ws(s, i0))

\* _int_raw(i)
int_raw(L, i0) ==
    LET s == L.buf
        n == Len(s)
        Alias(neg, back, j, name) ==
          IF name \in DOMAIN L.num_alias
          THEN [v |-> IF neg THEN -L.num_alias[name] ELSE L.num_alias[name], j |-> j]
          ELSE [v |-> 0, j |-> back]
        Literal(neg, back, i, d) ==
          IF d.j = i THEN [v |-> 0, j |-> back]
          ELSE [v |-> IF neg THEN -d.v ELSE d.v, j |-> d.j]
        Name(neg, back, i, j) == Alias(neg, back, j, LowerSeq(Slice(s, i, j)))
        Value(neg, i) ==
          IF i < n /\ is_id0(At(s, i))
          THEN Name(neg, i - (IF neg THEN 1 ELSE 0), i, ScanId(s, i))
          ELSE Literal(neg, i - (IF neg THEN 1 ELSE 0), i, Digits(s, i, 0))
        Sign(i1) ==
          LET signed == i1 < n /\ At(s, i1) \in {ChPlus, ChMinus}
          IN Value(signed /\ At(s, i1) = ChMinus, IF signed THEN i1 + 1 ELSE i1)
    IN Sign(skip_ws(s, i0))

\* _arr_node(no): index into the chain, 0 when the array is not declared
arr_node(L, no) ==
    LET hits == {k \in 1..Len(L.arrays) : L.arrays[k].no = no}
    IN IF hits = {} THEN 0 ELSE CHOOSE k \in hits : \A m \in hits : k <= m

\* list[k] with Python's negative indices, for the 20-cell dim lists
DimAt(dim, k) == IF k < 0 THEN dim[k + 20] ELSE dim[k]

\* _arr_idx(decl, req, off): err stands for _err (SystemExit)
RECURSIVE ArrIdxLoop(_, _, _, _)
ArrIdxLoop(decl, req, k, dim) ==
    IF k >= decl.num_dim THEN [dim |-> dim, err |-> FALSE]
    ELSE IF decl.dim[k] <= req.dim[k] THEN [dim |-> dim, err |-> TRUE]
    ELSE ArrIdxLoop(decl, req, k + 1, dim * decl.dim[k] + req.dim[k])

arr_idx(decl, req, off) ==
    LET Last(r) ==
          IF r.err THEN [idx |-> 0, err |-> TRUE]
          ELSE IF DimAt(decl.dim, decl.num_dim - 1) <= DimAt(req.dim, decl.num_dim - 1) + off
          THEN [idx |-> 0, err |-> TRUE]
          ELSE [idx |-> r.dim + off, err |-> FALSE]
    IN Last(ArrIdxLoop(decl, req, 0, 0))

\* node.data[idx] with Python's index rules; err stands for IndexError
DataAt(data, idx) ==
    LET k == IF idx < 0 THEN idx + Len(data) ELSE idx
    IN IF k < 0 \/ k >= Len(data) THEN [v |-> 0, err |-> TRUE]
       ELSE [v |-> data[k + 1], err |-> FALSE]

RECURSIVE expr(_, _)
RECURSIVE ExprLoop(_, _, _, _, _)
RECURSIVE read_num(_, _)
RECURSIVE int_at(_, _)
RECURSIVE array_at(_, _)
RECURSIVE ArrayDims(_, _, _)

\* next_op(j) of _expr
next_op(s, j0) ==
    LET Op(j, c) ==
          IF j >= Len(s) THEN [op |-> INV, j |-> j]
          ELSE IF c = ChPlus THEN [op |-> PLUS, j |-> j + 1]
          ELSE IF c = ChMinus THEN [op |-> MINUS, j |-> j + 1]
          ELSE IF c = ChStar THEN [op |-> MULT, j |-> j + 1]
          ELSE IF c = ChSlash THEN [op |-> DIV, j |-> j + 1]
          ELSE IF StartsWith(s, StrMod, j) THEN [op |-> MOD, j |-> j + 3]
          ELSE [op |-> INV, j |-> j]
        Char(j) == Op(j, At(s, j))
    IN Char(skip_ws(s, j0))

\* read_num(j) of _expr
read_num(L, j0) ==
    LET s == L.buf
        n == Len(s)
        Close(neg, e, k) ==
          IF e.err THEN e
          ELSE IF k >= n \/ At(s, k) # ChRParen THEN [v |-> 0, j |-> k, err |-> TRUE]
          ELSE [v |-> IF neg THEN -e.v ELSE e.v, j |-> k + 1, err |-> FALSE]
        Paren(neg, e) == Close(neg, e, skip_ws(s, e.j))
        Plain(neg, r) == [v |-> IF neg THEN -r.v ELSE r.v, j |-> r.j, err |-> r.err]
        Operand(neg, j) ==
          IF j < n /\ At(s, j) = ChLParen
          THEN Paren(neg, expr(L, j + 1))
          ELSE Plain(neg, int_at(L, j))
        Negate(neg, j1) == Operand(neg, IF neg THEN skip_ws(s, j1 + 1) ELSE j1)
        Sign(j1) == Negate(j1 < n /\ At(s, j1) = ChMinus, j1)
    IN Sign(skip_ws(s, j0))

\* the loop folding every operator as it comes, without the hi/lo test
RECURSIVE ExprLoop_NoPrec(_, _, _, _, _)
ExprLoop_NoPrec(L, a, op, b, i) ==
    LET Fold(o2, c) ==
          IF c.err THEN c
          ELSE ExprLoop_NoPrec(L, calc(a, op, b), o2.op, c.v, c.j)
        Operator(o2) ==
          IF o2.op = INV THEN [v |-> calc(a, op, b), j |-> i, err |-> FALSE]
          ELSE Fold(o2, read_num(L, o2.j))
    IN Operator(next_op(L.buf, i))

\* the `while True` loop of _expr
ExprLoop(L, a, op, b, i) ==
    LET Fold(o2, c) ==
          LET hi == o2.op \in {MULT, DIV, MOD}
              lo == op \in {MULT, DIV, MOD}
          IN IF c.err THEN c
             ELSE IF (~lo) /\ hi THEN ExprLoop(L, a, op, calc(b, o2.op, c.v), c.j)
             ELSE ExprLoop(L, calc(a, op, b), o2.op, c.v, c.j)
        Operator(o2) ==
          IF o2.op = INV THEN [v |-> calc(a, op, b), j |-> i, err |-> FALSE]
          ELSE Fold(o2, read_num(L, o2.j))
    IN Operator(next_op(L.buf, i))

\* _expr(i)
expr(L, i) ==
    LET Second(a, o, b) == IF b.err THEN b ELSE ExprLoop(L, a.v, o.op, b.v, b.j)
        Operator(a, o) ==
          IF o.op = INV THEN [v |-> a.v, j |-> o.j, err |-> FALSE]
          ELSE Second(a, o, read_num(L, o.j))
        First(a) == IF a.err THEN a ELSE Operator(a, next_op(L.buf, a.j))
    IN First(read_num(L, i))

\* the `while i < n and s[i] == "["` loop of _array_at
ArrayDims(L, av, i) ==
    IF ~(i < Len(L.buf) /\ At(L.buf, i) = ChLBracket) THEN [av |-> av, j |-> i, err |-> FALSE]
    ELSE LET Close(e, k) ==
               IF e.err THEN [av |-> av, j |-> e.j, err |-> TRUE]
               ELSE IF k >= Len(L.buf) \/ At(L.buf, k) # ChRBracket
               THEN [av |-> av, j |-> k, err |-> TRUE]
               ELSE ArrayDims(L, [av EXCEPT !.dim[av.num_dim] = e.v,
                                            !.num_dim = av.num_dim + 1],
                              k + 1)
             Index(e) == Close(e, skip_ws(L.buf, e.j))
         IN Index(expr(L, i + 1))

\* _array_at(i), called with s[i] == "?" after the blanks
array_at(L, i0) ==
    LET Dims(no) == ArrayDims(L, [NewArray EXCEPT !.no = no.v], no.j)
    IN Dims(int_raw(L, skip_ws(L.buf, i0) + 1))

\* _int_at(i)
int_at(L, i0) ==
    LET s == L.buf
        Variable(no) == [v |-> vd(L, no.v).num, j |-> no.j, err |-> FALSE]
        Cell(a, k, x, d) ==
          IF a.err \/ k = 0 \/ x.err \/ d.err THEN [v |-> 0, j |-> a.j, err |-> TRUE]
          ELSE [v |-> d.v, j |-> a.j, err |-> FALSE]
        Data(a, k, x) == Cell(a, k, x, DataAt(L.arrays[k].data, x.idx))
        Node(a, k) == Data(a, k, arr_idx(L.arrays[k], a.av, 0))
        Element(a) == Node(a, arr_node(L, a.av.no))
        Raw(r) == [v |-> r.v, j |-> r.j, err |-> FALSE]
        Operand(i) ==
          IF At(s, i) = ChPercent THEN Variable(int_raw(L, i + 1))
          ELSE IF At(s, i) = ChQuestion THEN Element(array_at(L, i))
          ELSE Raw(int_raw(L, i))
    IN Operand(skip_ws(s, i0))

\* size = product of node.dim[0 .. num_dim-1]
RECURSIVE DimProduct(_, _, _)
DimProduct(dim, k, n) == IF k >= n THEN 1 ELSE dim[k] * DimProduct(dim, k + 1, n)

\* declare_dim(): the array after the cursor joins the chain (the first
\* declaration replaces arr_root); err when _array_at raised
declare_dim(L) ==
    LET Link(j, node) ==
          [L EXCEPT !.arrays = IF L.arr_cur THEN Append(L.arrays, node) ELSE <<node>>,
                    !.arr_cur = TRUE,
                    !.i = j]
        Data(j, no, num_dim, dim, size) ==
          Link(j, [no |-> no, num_dim |-> num_dim, dim |-> dim,
                   data |-> [k \in 1..size |-> 0]])
        Node(j, no, num_dim, dim) ==
          Data(j, no, num_dim, dim, DimProduct(dim, 0, num_dim))
        Declare(a) ==
          IF a.err THEN [L EXCEPT !.err = TRUE]
          ELSE Node(a.j, a.av.no, a.av.num_dim,
                    [k \in 0..19 |-> IF k < a.av.num_dim THEN a.av.dim[k] + 1 ELSE 0])
    IN Declare(array_at(L, L.i))

\* read_int(): the value and the lexer after it; err when _err was raised
read_int(L) ==
    LET Comma(e, c) ==
          IF e.err THEN [v |-> 0, L |-> [L EXCEPT !.err = TRUE]]
          ELSE [v |-> e.v, L |-> [L EXCEPT !.i = c.i, !.end = c.end]]
        Value(e) == Comma(e, eat_comma(L.buf, e.j, L.end))
    IN Value(expr(L, L.i))

\* ------------------------------------------------------------------------
\* class Lexer: the tokenizer
\* ------------------------------------------------------------------------
\* Token(kind, text, pos, line, end, wait_at, color)
Token(kind, text, pos, line, end, wait_at, color) ==
    [kind |-> kind, text |-> text, pos |-> pos, line |-> line, end |-> end,
     wait_at |-> wait_at, color |-> color]

NoToken == Token("none", <<>>, 0, 0, END_NONE, None, None)

\* str(v)
RECURSIVE DigitsOf(_)
DigitsOf(v) == IF v < 10 THEN <<48 + v>> ELSE DigitsOf(v \div 10) \o <<48 + (v % 10)>>
IntToStr(v) == IF v < 0 THEN <<ChMinus>> \o DigitsOf(-v) ELSE DigitsOf(v)

\* the Ponscripter colour control at i: "^~cX~" with a digit X
IsColorCtl(s, i) ==
    /\ i + 5 <= Len(s)
    /\ At(s, i + 1) = ChTilde
    /\ Lower(At(s, i + 2)) = 99
    /\ IsDigit(At(s, i + 3))
    /\ At(s, i + 4) = ChTilde

\* one iteration of the `while i < n` loop of the text branch of
\* _next_token; stop is set when the loop is left.
\* st = [i, b, tok_color, eng, wait_at, cur_color, err, stop]
TextStep(L, st) ==
    LET s == L.buf
        n == Len(s)
        i == st.i
        c == At(s, i)
    IN IF i >= n THEN [st EXCEPT !.stop = TRUE]
       ELSE IF EncBytes(L.code, c) >= 2
       THEN \* a two-byte lead takes the next character with it; _maybe_wait
            \* does nothing while click is None
            [st EXCEPT !.b = IF i + 1 < n THEN st.b \o <<c, At(s, i + 1)>>
                                          ELSE Append(st.b, c),
                       !.i = IF i + 1 < n THEN i + 2 ELSE i + 1]
       ELSE IF L.pons /\ c = ChCaret
       THEN IF StartsWith(s, StrCaretAtCaret, i)
            THEN [st EXCEPT !.b = Append(st.b, ChAt),
                            !.i = i + 3,
                            !.wait_at = IF st.wait_at = None THEN i + 3 ELSE @]
            ELSE IF IsColorCtl(s, i)
            THEN [st EXCEPT !.cur_color = At(s, i + 3) - 48,
                            !.tok_color = IF st.b = <<>> THEN At(s, i + 3) - 48 ELSE @,
                            !.i = i + 5]
            ELSE [st EXCEPT !.b = Append(st.b, ChCaret), !.i = i + 1]
       ELSE IF ~L.expand_in_text
       THEN IF c = ChSemi \/ c = LF \/ c = NUL THEN [st EXCEPT !.stop = TRUE]
            ELSE [st EXCEPT !.b = Append(st.b, c),
                            !.i = i + 1,
                            !.wait_at = IF st.wait_at = None /\ c \in {ChAt, ChBackslash}
                                                    THEN i + 1 ELSE @]
       ELSE IF ~st.eng /\ c \in {ChPercent, ChQuestion}
       THEN LET Number(r) ==
                  IF r.err THEN [st EXCEPT !.err = TRUE, !.stop = TRUE]
                  ELSE [st EXCEPT !.b = st.b \o IntToStr(r.v),
                                  !.i = skip_ws(s, r.j)]
            IN Number(int_at(L, i))
       ELSE IF ~st.eng /\ c = ChDollar
       THEN LET String(r, v) ==
                  [st EXCEPT !.b = st.b \o (IF v.has_str THEN v.str ELSE <<>>),
                             !.i = skip_ws(s, r.j)]
                Slot(r) == String(r, vd(L, r.v))
            IN Slot(int_raw(L, i + 1))
       ELSE IF L.code = UTF8 /\ c = L.text_marker
       THEN [st EXCEPT !.eng = ~st.eng, !.i = i + 1]
       ELSE IF c = LF \/ c = NUL THEN [st EXCEPT !.stop = TRUE]
       ELSE LET st1 == [st EXCEPT !.b = Append(st.b, c),
                                  !.i = i + 1,
                                  !.wait_at = IF st.wait_at = None /\ ~st.eng
                                                 /\ c \in {ChAt, ChBackslash}
                                              THEN i + 1 ELSE @]
            IN IF i + 1 < n /\ At(s, i + 1) = ChSemi THEN [st1 EXCEPT !.stop = TRUE] ELSE st1

RECURSIVE TextLoop(_, _)
TextLoop(L, st) == IF st.stop THEN st ELSE TextLoop(L, TextStep(L, st))

\* the comment branch: the characters up to and including the LF
CommentEnd(s, i) ==
    LET Past(e) == IF e < Len(s) THEN e + 1 ELSE e IN Past(FindChar(s, i, LF))

\* the newline branch with the line counter taken for the cursor:
\* self.i = self.line + 1
nl_token_LineAsCursor(L, i) ==
    [L |-> [L EXCEPT !.i = L.line + 1, !.line = L.line + 1],
     tok |-> Token("nl", <<LF>>, i, L.line, END_NONE, None, None)]

\* the newline branch of _next_token: self.i = i + 1; self.line += 1
nl_token(L, i) ==
    [L |-> [L EXCEPT !.i = i + 1, !.line = L.line + 1],
     tok |-> Token("nl", <<LF>>, i, L.line, END_NONE, None, None)]

\* _next_token: the lexer after the call and the token.  When _err raises
\* SystemExit inside the text branch, err is set and no token is returned.
next_token(L0) ==
    LET s == L0.buf
        n == Len(s)
        Comment(L, i, e) ==
          LET nl == At(s, e - 1) = LF
          IN [L |-> [L EXCEPT !.i = e, !.line = IF nl THEN L.line + 1 ELSE L.line],
              tok |-> Token("comment", Slice(s, i, e), i, L.line, L.end, None, None)]
        LabelTok(L, i, c) ==
          [L |-> [L EXCEPT !.i = c.i, !.end = c.end],
           tok |-> Token("label", read_label_name(s, i), i, L.line, c.end, None, None)]
        CmdTok(L, i, j, c) ==
          [L |-> [L EXCEPT !.i = c.i, !.end = c.end],
           tok |-> Token("cmd", LowerSeq(Slice(s, i, j)), i, L.line, c.end, None, None)]
        Cmd(L, i, j) == CmdTok(L, i, j, eat_comma(s, j, L.end))
        TextTok(L, st, c) ==
          IF st.err
          THEN [L |-> [L EXCEPT !.wait_at = st.wait_at, !.cur_color = st.cur_color,
                                !.err = TRUE],
                tok |-> NoToken]
          ELSE [L |-> [L EXCEPT !.i = c.i, !.end = c.end, !.wait_at = st.wait_at,
                                !.cur_color = st.cur_color, !.text_mode = TRUE],
                tok |-> Token("text", st.b, st.i, L.line, c.end, st.wait_at, st.tok_color)]
        Text(L, st) == TextTok(L, st, eat_comma(s, st.i, L.end))
        Branch(L, i, ch) ==
          IF L0.i >= n
          THEN [L |-> L, tok |-> Token("eof", <<>>, L0.i, L.line, END_NONE, None, None)]
          ELSE IF i >= n
          THEN [L |-> [L EXCEPT !.i = i],
                tok |-> Token("eof", <<>>, i, L.line, END_NONE, None, None)]
          ELSE IF \/ ch = ChSemi
                  \/ (StartsWith(s, StrLangjp, i) /\ L.lang = 0)
                  \/ (StartsWith(s, StrLangen, i) /\ L.lang = 1)
          THEN Comment(L, i, CommentEnd(s, i))
          ELSE IF ch = ChStar
          THEN LabelTok(L, i, eat_comma(s, after_label(s, i), L.end))
          ELSE IF ch \in {ChTilde, ChColon}
          THEN [L |-> [L EXCEPT !.i = i + 1],
                tok |-> Token("mark", <<ch>>, i, L.line, END_NONE, None, None)]
          ELSE IF ch = LF
          THEN nl_token(L, i)
          ELSE IF is_id0(ch)
          THEN Cmd(L, i, ScanId(s, i))
          ELSE Text(L, TextLoop(L, [i |-> i, b |-> <<>>, tok_color |-> L.cur_color,
                                    eng |-> FALSE, wait_at |-> None,
                                    cur_color |-> L.cur_color, err |-> FALSE,
                                    stop |-> FALSE]))
        Start(L, i) == Branch(L, i, At(s, i))
    IN Start([L0 EXCEPT !.end = END_NONE, !.wait_at = None], skip_ws(s, L0.i))

\* peek() that puts back the line and the end flags but not the cursor
peek_NoRestore(L) ==
    LET Restore(r) ==
          IF r.L.err THEN r
          ELSE [L |-> [r.L EXCEPT !.line = L.line, !.end = L.end], tok |-> r.tok]
    IN Restore(next_token(L))

\* peek(): _next_token, then cursor, line and end flags are put back
peek(L) ==
    LET Restore(r) ==
          IF r.L.err THEN r
          ELSE [L |-> [r.L EXCEPT !.i = L.i, !.line = L.line, !.end = L.end], tok |-> r.tok]
    IN Restore(next_token(L))

\* ------------------------------------------------------------------------
\* The client of the lexer: one action per API call
\* ------------------------------------------------------------------------
\* lx.open(path)
Open ==
    /\ call = "new"
    /\ \E r \in {open(lx, dir)} :
          /\ lx' = r.L
          /\ call' = IF r.rc < 0 THEN "open_failed" ELSE "open"
    /\ UNCHANGED <<dir, tok, rv, expr_in>>

Opened == call \notin {"new", "open_failed"} /\ ~lx.err

\* lx.next()
Next ==
    /\ Opened
    /\ \E r \in {next_token(lx)} : lx' = r.L /\ tok' = r.tok
    /\ call' = "next"
    /\ UNCHANGED <<dir, rv, expr_in>>

\* lx.peek()
Peek ==
    /\ Opened
    /\ \E r \in {peek(lx)} : lx' = r.L /\ tok' = r.tok
    /\ call' = "peek"
    /\ UNCHANGED <<dir, rv, expr_in>>

\* lx.jump_label(name)
JumpLabel(name) ==
    /\ Opened
    /\ lx' = jump_label(lx, name)
    /\ call' = "jump_label"
    /\ UNCHANGED <<dir, tok, rv, expr_in>>

\* lx.declare_dim(), which asserts that the cursor is at a "?"
DeclareDim ==
    /\ Opened
    /\ At(lx.buf, skip_ws(lx.buf, lx.i)) = ChQuestion
    /\ lx' = declare_dim(lx)
    /\ call' = "declare_dim"
    /\ UNCHANGED <<dir, tok, rv, expr_in>>

\* lx.read_int()
ReadInt ==
    /\ Opened
    /\ \E r \in {read_int(lx)} : lx' = r.L /\ rv' = r.v
    /\ call' = "read_int"
    /\ UNCHANGED <<dir, tok, expr_in>>

\* ------------------------------------------------------------------------
\* nsdec: the XOR codec.  src.read(BSIZE) returns between 1 and BSIZE bytes
\* while bytes are left and the empty chunk at the end of the file.  The
\* strict cp932 decoder of the decryption only determines its return value;
\* it reads the chunks and writes nothing.
\* ------------------------------------------------------------------------
BSIZE == 32
KEY == 132

\* b + KEY in place of b ^ KEY
XorKey_Add(b) == (b + KEY) % 256

\* b ^ KEY
XorKey(b) == Xor8(b, KEY)

\* bytes(b ^ KEY for b in chunk)
XorChunk(chunk) == [k \in 1..Len(chunk) |-> XorKey(chunk[k])]

\* encrypt: one iteration of `while True` that read a non-empty chunk
EncryptChunk ==
    /\ dec_pc = "encrypt" /\ dec_pos < Len(dec_plain)
    /\ \E n \in 1..Min(BSIZE, Len(dec_plain) - dec_pos) :
          /\ dec_dat' = dec_dat \o XorChunk(SubSeq(dec_plain, dec_pos + 1, dec_pos + n))
          /\ dec_pos' = dec_pos + n
    /\ dec_reads' = dec_reads + 1
    /\ UNCHANGED <<dec_pc, dec_plain, dec_out>>

\* encrypt: `if not chunk: break`; both files are closed, and the
\* decryption opens the file just written
EncryptEnd ==
    /\ dec_pc = "encrypt" /\ dec_pos >= Len(dec_plain)
    /\ dec_pc' = "decrypt" /\ dec_pos' = 0
    /\ UNCHANGED <<dec_plain, dec_dat, dec_out, dec_reads>>

\* decrypt_no_convert_with_cp932_check: one iteration with a non-empty chunk
DecryptChunk ==
    /\ dec_pc = "decrypt" /\ dec_pos < Len(dec_dat)
    /\ \E n \in 1..Min(BSIZE, Len(dec_dat) - dec_pos) :
          /\ dec_out' = dec_out \o XorChunk(SubSeq(dec_dat, dec_pos + 1, dec_pos + n))
          /\ dec_pos' = dec_pos + n
    /\ dec_reads' = dec_reads + 1
    /\ UNCHANGED <<dec_pc, dec_plain, dec_dat>>

\* decrypt_no_convert_with_cp932_check: `if not chunk: break` and return
DecryptEnd ==
    /\ dec_pc = "decrypt" /\ dec_pos >= Len(dec_dat)
    /\ dec_pc' = "done"
    /\ UNCHANGED <<dec_plain, dec_dat, dec_pos, dec_out, dec_reads>>

DecIdle ==
    /\ dec_pc = "idle" /\ dec_plain = <<>> /\ dec_dat = <<>> /\ dec_pos = 0
    /\ dec_out = <<>> /\ dec_reads = 0

DecStart ==
    /\ dec_pc = "encrypt"
    /\ dec_plain \in SeqsUpTo(DecByteSet, MaxDecLen)
    /\ dec_dat = <<>> /\ dec_pos = 0 /\ dec_out = <<>> /\ dec_reads = 0

\* ------------------------------------------------------------------------
\* nsdia: the dialogue dumper
\* ------------------------------------------------------------------------
\* s.replace("\r\n", "\n").replace("\r", "\n")
RECURSIVE NormalizeNewlines(_)
NormalizeNewlines(s) ==
    IF s = <<>> THEN <<>>
    ELSE IF Head(s) = CR
    THEN <<LF>> \o NormalizeNewlines(IF Len(s) > 1 /\ s[2] = LF THEN Tail(Tail(s))
                                     ELSE Tail(s))
    ELSE <<Head(s)>> \o NormalizeNewlines(Tail(s))

\* s.replace("\\", "\n").replace("@", "")
WaitsToNewlines(s) ==
    SelectSeq([k \in 1..Len(s) |-> IF s[k] = ChBackslash THEN LF ELSE s[k]],
              LAMBDA c : c # ChAt)

clean_dialogue_text(s) == WaitsToNewlines(NormalizeNewlines(s))

\* skip_to_eol(lx)
skip_to_eol(L) == [L EXCEPT !.i = FindChar(L.buf, L.i, LF)]

\* the start of extract_dialogue: expand_in_text is switched off and the
\* directory is opened; sys.exit(1) when open() fails
DiaOpen ==
    /\ dia_pc = "start"
    /\ \E r \in {open([lx EXCEPT !.expand_in_text = FALSE], dir)} :
          /\ lx' = r.L
          /\ call' = IF r.rc < 0 THEN "open_failed" ELSE "open"
          /\ dia_pc' = IF r.rc < 0 THEN "exit" ELSE "loop"
    /\ UNCHANGED <<dir, tok, rv, expr_in, dia_no_clean, dia_chunks, dia_last_nl>>

\* the handling of a TEXT token; main hands args.no_clean to the parameter
\* `clean` of extract_dialogue
DiaText(t) ==
    LET Emit(text) ==
          IF text = <<>>
          THEN UNCHANGED <<dia_chunks, dia_last_nl>>
          ELSE /\ dia_chunks' =
                     (IF dia_chunks # <<>> /\ ~dia_last_nl /\ Head(text) # LF
                      THEN Append(dia_chunks, <<LF>>) ELSE dia_chunks) \o <<text>>
               /\ dia_last_nl' = (text[Len(text)] = LF)
        Chunk(clean) == Emit(IF clean THEN clean_dialogue_text(t.text) ELSE t.text)
    IN Chunk(dia_no_clean)

\* one iteration of the `while True` loop of extract_dialogue
DiaStep ==
    /\ dia_pc = "loop"
    /\ \E r \in {next_token(lx)} :
          /\ tok' = r.tok
          /\ lx' = IF ~r.L.err /\ r.tok.kind = "cmd" THEN skip_to_eol(r.L) ELSE r.L
          /\ dia_pc' = IF r.L.err THEN "exit"
                       ELSE IF r.tok.kind = "eof" THEN "done" ELSE "loop"
          /\ IF ~r.L.err /\ r.tok.kind = "text"
             THEN DiaText(r.tok)
             ELSE UNCHANGED <<dia_chunks, dia_last_nl>>
    /\ call' = "next"
    /\ UNCHANGED <<dir, rv, expr_in, dia_no_clean>>

DiaIdle ==
    dia_pc = "idle" /\ dia_no_clean = FALSE /\ dia_chunks = <<>> /\ dia_last_nl = TRUE

\* ------------------------------------------------------------------------
\* nsaex: the per-entry dispatcher
\* ------------------------------------------------------------------------
StrBM == <<66, 77>>                              \* b"BM"
StrBZh == <<66, 90, 104>>                        \* b"BZh"
StrLzMagic == <<161, 83>>                        \* b"\xa1\x53"
ChDot == 46

\* Path(name).suffix.lower().lstrip("."): the text after the last dot, which
\* is neither the first nor the last character of the name
SuffixLower(name) ==
    LET dots == {k \in 2..(Len(name) - 1) : name[k] = ChDot}
        Last(k) == LowerSeq(SubSeq(name, k + 1, Len(name)))
    IN IF dots = {} THEN <<>> ELSE Last(CHOOSE k \in dots : \A m \in dots : m <= k)

\* data[off:off+len(sig)] == sig
HasAt(data, sig, off) == Slice(data, off, off + Len(sig)) = sig

\* the scan for the LZSS magic in the first min(16, len - 1) offsets; -1
\* when it is not there
FindLzMagic(data) ==
    LET offs == {off \in 0..(Min(16, Len(data) - 1) - 1) : HasAt(data, StrLzMagic, off)}
    IN IF offs = {} THEN -1 ELSE CHOOSE off \in offs : \A m \in offs : off <= m

NoBytes == [ok |-> FALSE, bytes |-> <<>>]
Bytes(b) == [ok |-> TRUE, bytes |-> b]

\* bz2.decompress is not modelled: bz is what the call does with the
\* payload of the entry, NoBytes when it raises, else the bytes it returns
BzOutcomes == {NoBytes, Bytes(<<66, 77, 1>>), Bytes(<<82, 73>>)}

\* the timeout_ms both callers of spb_to_bmp pass on
EffectiveTimeout(spb_timeout_ms) ==
    IF spb_timeout_ms # None /\ spb_timeout_ms # 0 /\ spb_timeout_ms > 0
    THEN spb_timeout_ms ELSE 1500

\* a test for a BMP that wants room for the size field after "BM"
IsRawBmp_WithSize(raw) == Len(raw) >= 6 /\ SubSeq(raw, 1, 2) = StrBM

\* Case 1 of detect_and_process_bmp: the payload is a BMP already
IsRawBmp(raw) == Len(raw) >= 2 /\ SubSeq(raw, 1, 2) = StrBM

\* detect_and_process_bmp: <<result_bytes, status>>.  clk is the patience
\* of the clock during the call of spb_to_bmp.
detect_and_process_bmp(raw, expanded_size, spb_mode, spb_timeout_ms, spb_skip_plausibility, spb_skip_sizecheck, spb_scan, spb_plane, bz, clk) ==
    LET Converted(r) ==
          IF r.status = "ok" THEN [out |-> Bytes(r.bmp), status |-> "spb_converted"]
          ELSE IF r.status = "TimeoutError" THEN [out |-> NoBytes, status |-> "spb_skip_timeout"]
          ELSE [out |-> NoBytes, status |-> "spb_skip_error"]
        Spb(pl) ==
          IF ~pl.ok /\ ~spb_skip_plausibility
          THEN [out |-> NoBytes, status |-> "spb_skip_implausible"]
          ELSE IF ~spb_skip_sizecheck /\ expanded_size # 0 /\ expanded_size > 0
                  /\ Abs(expected_24bpp_bmp_size(pl.w, pl.h) - expanded_size) > 8
          THEN [out |-> NoBytes, status |-> "spb_skip_mismatch"]
          ELSE IF spb_mode = "copy" THEN [out |-> NoBytes, status |-> "spb_skip_policy"]
          ELSE Converted(spb_to_bmp(raw, EffectiveTimeout(spb_timeout_ms), spb_scan,
                                    spb_plane, clk))
        \* out is empty when the LZSS magic was not found
        Lzss(out) ==
          IF Len(out) >= 2 /\ SubSeq(out, 1, 2) = StrBM
          THEN [out |-> Bytes(out), status |-> "lzss_decompressed"]
          ELSE Spb(spb_plausible(raw))
        Case2(lz_off) ==
          Lzss(IF lz_off >= 0 THEN lzss_decompress(raw, expanded_size, lz_off) ELSE <<>>)
    IN IF IsRawBmp(raw)
       THEN [out |-> NoBytes, status |-> "raw_bmp"]
       ELSE IF (HasAt(raw, StrBZh, 0) \/ HasAt(raw, StrBZh, 4))
               /\ bz.ok /\ Len(bz.bytes) >= 2 /\ SubSeq(bz.bytes, 1, 2) = StrBM
       THEN [out |-> Bytes(bz.bytes), status |-> "bz2_decompressed"]
       ELSE Case2(FindLzMagic(raw))

Result(b, should_write, status) ==
    [out |-> b, should_write |-> should_write, status |-> status]

\* process_file_bytes: (bytes_to_write, should_write, status_text).  clk1
\* and clk2 are the patience of the clock during the call of spb_to_bmp of
\* the flag path and during the one of detect_and_process_bmp.
process_file_bytes(name, data, expanded_size, compression_flag, spb_mode, spb_timeout_ms, spb_skip_plausibility, spb_skip_sizecheck, spb_scan, spb_plane, bz, clk1, clk2) ==
    LET ext == SuffixLower(name)
        flag == IF compression_flag = None THEN 0 ELSE compression_flag
        payload == IF Len(data) >= 4 THEN SubSeq(data, 5, Len(data)) ELSE data
        Detected(d) ==
          IF d.status = "raw_bmp" THEN Result(Bytes(data), TRUE, d.status)
          ELSE IF d.status \in {"lzss_decompressed", "bz2_decompressed", "spb_converted"}
                  /\ d.out.ok
          THEN Result(d.out, TRUE, d.status)
          ELSE Result(NoBytes, FALSE, d.status)
        \* r is the outcome of the flagged SPB conversion, "untried" when
        \* it was not attempted; every exception falls through
        FlagSpb(r) ==
          IF r.status = "ok" THEN Result(Bytes(r.bmp), TRUE, "spb_converted_flag")
          ELSE Detected(detect_and_process_bmp(data, expanded_size, spb_mode, spb_timeout_ms,
                                               spb_skip_plausibility, spb_skip_sizecheck,
                                               spb_scan, spb_plane, bz, clk2))
        TrySpb(pl) ==
          /\ flag = 1
          /\ pl.ok \/ spb_skip_plausibility
          /\ ~(/\ ~spb_skip_sizecheck /\ expanded_size # 0 /\ expanded_size > 0
               /\ Len(data) >= 4
               /\ Abs(expected_24bpp_bmp_size(pl.w, pl.h) - expanded_size) > 8)
        \* out is empty when the flagged LZSS path was not taken
        FlagLzss(out) ==
          IF Len(out) >= 2 /\ SubSeq(out, 1, 2) = StrBM
          THEN Result(Bytes(out), TRUE, "lzss_decompressed_flag")
          ELSE FlagSpb(IF TrySpb(spb_plausible(data))
                       THEN spb_to_bmp(data, EffectiveTimeout(spb_timeout_ms), spb_scan,
                                       spb_plane, clk1)
                       ELSE [status |-> "untried"])
        Bmp(lz_off) ==
          FlagLzss(IF flag = 2 /\ lz_off >= 0
                   THEN lzss_decompress(data, expanded_size, lz_off) ELSE <<>>)
    IN IF ext = <<110, 98, 122>>                                \* "nbz"
       THEN Result(Bytes(payload), TRUE, "nbz_payload")
       ELSE IF flag = 4
       THEN IF (HasAt(data, StrBZh, 0) \/ HasAt(data, StrBZh, 4)) /\ bz.ok
            THEN Result(Bytes(bz.bytes), TRUE, "nbz_decompressed")
            ELSE Result(Bytes(payload), TRUE, "nbz_payload")
       ELSE IF ext = <<98, 109, 112>>                           \* "bmp"
       THEN Bmp(FindLzMagic(data))
       ELSE Result(Bytes(data), TRUE, "passthrough")

AexNone == [status |-> "none"]

\* main hands --spb-timeout-ms to extract_volume, 0 as None, and
\* extract_volume hands the entry and the options to process_file_bytes
ProcessEntry ==
    /\ aex_res = AexNone
    /\ \E bz \in BzOutcomes, clk1 \in 0..MaxPatience, clk2 \in 0..MaxPatience :
          aex_res' = process_file_bytes(
                         aex_entry.name, aex_entry.data, aex_entry.expanded_size,
                         aex_entry.compression_flag, aex_args.spb_mode,
                         IF aex_args.spb_timeout_ms = 0 THEN None
                         ELSE aex_args.spb_timeout_ms,
                         aex_args.spb_skip_plausibility, aex_args.spb_skip_sizecheck,
                         aex_args.spb_scan, aex_args.spb_plane, bz, clk1, clk2)
    /\ UNCHANGED <<aex_args, aex_entry>>

AexIdle == aex_args = <<>> /\ aex_entry = <<>> /\ aex_res = AexNone

\* ------------------------------------------------------------------------
\* nsaex.extract_volume.  An entry of the table is its rel_offset, its
\* stored_size, whether process_file_bytes says to write its bytes, and
\* whether the disk takes what is written for it (the output file, or the
\* copy of the skipped bytes when save_skips_dir is given): write_bytes and
\* save_skip_bytes raise OSError when it does not.
\* ------------------------------------------------------------------------
VolIdle ==
    /\ vol_file = <<>> /\ vol_opts = <<>> /\ vol_pc = "idle"
    /\ vol_open = FALSE /\ vol_i = 0 /\ vol_log = <<>>

\* extract_entry_data: the number of bytes f.read(e.stored_size) returns
\* after f.seek(base + e.rel_offset)
BytesRead(file, e) ==
    Min(e.stored_size, IF file.len > file.base_offset + e.rel_offset
                       THEN file.len - (file.base_offset + e.rel_offset) ELSE 0)

\* the body of the try statement for entry e: the line printed
EntryOutcome(file, opts, e) ==
    IF BytesRead(file, e) # e.stored_size THEN "error"        \* EOFError
    ELSE IF e.writes THEN (IF e.disk_ok THEN "written" ELSE "error")
    ELSE IF opts.save_skips /\ ~e.disk_ok THEN "error"
    ELSE "skipped"

\* a loop that gives the volume up at the first entry that fails
AfterEntry_GiveUp(opts, outcome) ==
    IF opts.only_index # None \/ outcome = "error" THEN "returned" ELSE "loop"

\* after the try statement: break when only_index is given
AfterEntry(opts, outcome) ==
    IF opts.only_index # None THEN "returned" ELSE "loop"

\* with open(vol_path, "rb") as f: parse_header and parse_entries; an
\* exception of theirs leaves the with statement, which closes f
VolOpen ==
    /\ vol_pc = "closed"
    /\ IF vol_file.parses
       THEN vol_pc' = "loop" /\ vol_open' = TRUE
       ELSE vol_pc' = "raised" /\ vol_open' = FALSE
    /\ vol_i' = 0
    /\ UNCHANGED <<vol_file, vol_opts, vol_log>>

\* one pass of "for i, e in enumerate(entries)"
VolEntry ==
    /\ vol_pc = "loop" /\ vol_i < Len(vol_file.entries)
    /\ IF vol_opts.only_index # None /\ vol_i # vol_opts.only_index
       THEN /\ vol_i' = vol_i + 1                              \* continue
            /\ UNCHANGED <<vol_pc, vol_open, vol_log>>
       ELSE \E outcome \in {EntryOutcome(vol_file, vol_opts, vol_file.entries[vol_i + 1])} :
              /\ vol_log' = Append(vol_log, [i |-> vol_i, line |-> outcome])
              /\ vol_pc' = AfterEntry(vol_opts, outcome)
              /\ vol_open' = (vol_pc' = "loop")
              /\ vol_i' = vol_i + 1
    /\ UNCHANGED <<vol_file, vol_opts>>

\* the for loop runs out of entries and the with statement closes f
VolReturn ==
    /\ vol_pc = "loop" /\ vol_i >= Len(vol_file.entries)
    /\ vol_pc' = "returned" /\ vol_open' = FALSE
    /\ UNCHANGED <<vol_file, vol_opts, vol_i, vol_log>>

VolEntries ==
    [rel_offset : 0..1, stored_size : 1..2, writes : BOOLEAN, disk_ok : BOOLEAN]
VolStart ==
    /\ vol_file \in [len : 0..MaxVolLen, parses : BOOLEAN, base_offset : {0},
                     entries : SeqsUpTo(VolEntries, MaxVolEntries)]
    /\ vol_opts \in [only_index : {None} \cup 0..(MaxVolEntries - 1), save_skips : BOOLEAN]
    /\ vol_pc = "closed" /\ vol_open = FALSE /\ vol_i = 0 /\ vol_log = <<>>

\* the LZSS stream that codes the bytes lits as literals: for each byte a
\* flag bit 1 and its 8 bits, most significant first, packed into bytes
LiteralBits(lits) ==
    [k \in 1..(9 * Len(lits)) |->
        IF (k - 1) % 9 = 0 THEN 1
        ELSE (lits[((k - 1) \div 9) + 1] \div (2 ^ (8 - ((k - 1) % 9)))) % 2]
LiteralStream(lits) == <<>> \o PackBits(LiteralBits(lits))

\* a 64-byte BMP of "BM" and 62 zero bytes, and the stream coding it
Bmp64 == StrBM \o Zeros(62)
Bmp64Stream == LiteralStream(Bmp64)

\* the entries and options of SpecAex
AexNames == { <<65, 46, 66, 77, 80>>,            \* "A.BMP"
              <<98, 46, 110, 98, 122>>,          \* "b.nbz"
              <<99, 46, 119, 97, 118>> }         \* "c.wav"
AexPayloads ==
    { <<>>, <<7>>,
      <<66, 77, 0>>,                             \* a BMP
      StrBM,                                     \* "BM" and nothing more
      StrBM \o <<161, 83, 64>>,                  \* a BMP that holds the LZSS magic
      <<66, 90, 104, 1>>,                        \* "BZh" at offset 0
      <<0, 0, 0, 9, 66, 90, 104>>,               \* "BZh" at offset 4
      <<161, 83, 64>>,                           \* LZSS, decodes to "BM"
      <<161, 83, 0>>,                            \* LZSS, decodes to "B", 0x4C
      <<0, 161, 83, 64>>,                        \* LZSS magic at offset 1
      Bmp64Stream,                               \* begins A1 53 60
      StrLzMagic \o Bmp64Stream,
      <<32, 1, 0, 1, 53>>,                       \* an SPB header of 8193 x 1
      <<16, 1, 16, 0, 53>> }                     \* an SPB header of 4097 x 4096
    \cup { <<0, w, 0, h>> \o body : w \in 0..MaxW, h \in 0..MaxH, body \in {<<>>, <<53>>, <<53, 0, 0>>} }
AexSizes == {0, 2, 62, 64}
AexFlags == {0, 1, 2, 4}

AexStart ==
    /\ aex_args \in [spb_mode : {"auto", "convert", "copy"},
                     spb_timeout_ms : {0, 1500},
                     spb_skip_plausibility : BOOLEAN,
                     spb_skip_sizecheck : BOOLEAN,
                     spb_scan : {"zigzag"},
                     spb_plane : {"bgr"}]
    /\ aex_entry \in [name : AexNames, data : AexPayloads, expanded_size : AexSizes,
                      compression_flag : AexFlags]
    /\ aex_res = AexNone

\* ------------------------------------------------------------------------
\* Script directories the lexer is opened on
\* ------------------------------------------------------------------------
RECURSIVE Flatten(_)
Flatten(ss) == IF ss = <<>> THEN <<>> ELSE Head(ss) \o Flatten(Tail(ss))

\* each line followed by its LF
Lines(ls) == Flatten([k \in 1..Len(ls) |-> ls[k] \o <<LF>>])

\* the bytes of a text in cp932: ChMe is the pair 82 DF
ToBytes(text) == Flatten([k \in 1..Len(text) |->
                            IF text[k] = ChMe THEN <<130, 223>> ELSE <<text[k]>>])

\* the container file `name` holding `text`
\* (nscript.dat and pscript.dat hold every byte XOR 0x84)
Container(name, text) ==
    LET raw == ToBytes(text)
    IN name :> (IF name \in {"nscript.dat", "pscript.dat"}
                THEN [k \in 1..Len(raw) |-> Xor8(raw[k], 132)]
                ELSE raw)

MaxCfgLines == 3
MaxLabelLines == 3
MaxPonsAtoms == 5
MaxTokAtoms == 3
MaxExprTokens == 5
MaxLangLines == 2
MaxRunLines == 3
MaxCallDepth == 3

\* the scenario script: ";mode800,g300,v1000", "*A", "hi"
ScenarioCfg ==
    <<59, 109, 111, 100, 101, 56, 48, 48, 44, 103, 51, 48, 48, 44, 118, 49, 48, 48, 48>>
ScenarioLabel == <<42, 65>>
ScenarioText == <<104, 105>>
Scenario == Lines(<<ScenarioCfg, ScenarioLabel, ScenarioText>>)

\* the lines the scripts of SpecCfg are made of
CfgLines ==
    { ScenarioCfg, ScenarioLabel, ScenarioText,
      <<109, 111, 100, 101, 52, 48, 48, 44, 118, 49, 48>>,   \* "mode400,v10"
      <<36, 115, 49, 50, 44, 51, 52, 44, 108, 53>>,  \* "$s12,34,l5"
      <<118, 97, 108, 117, 101, 55, 32, 44, 103, 56>>,       \* "value7 ,g8"
      <<59>>,                                        \* ";"
      <<109, 111, 100, 101, 119, 55, 50, 48, 44, 71, 53, 44, 86, 54>> }
                                                     \* "modew720,G5,V6"

\* the lines the scripts of SpecLabel are made of
LabelLines ==
    { <<42, 97>>,                                    \* "*a"
      <<42, 97, 32>>,                                \* "*a "
      <<42, 98, 9>>,                                 \* "*b\t"
      <<42, 97, 32, 120>>,                           \* "*a x"
      <<32, 42, 66>>,                                \* " *B"
      <<104, 105>>,                                  \* "hi"
      <<42, 42, 97>>,                                \* "**a"
      <<42, 97, 44, 98>> }                           \* "*a,b"

\* the names the client jumps to in SpecLabel: "a", "B", "zz"
LabelNames == { <<97>>, <<66>>, <<122, 122>> }

\* the pieces the scripts of SpecPons are made of
PonsC3 == <<94, 126, 99, 51, 126>>               \* "^~c3~"
PonsRed == <<114, 101, 100>>                     \* "red"
PonsWait == <<94, 64, 94>>                       \* "^@^"
PonsC0 == <<94, 126, 99, 48, 126>>               \* "^~c0~"
PonsPlain == <<112, 108, 97, 105, 110>>          \* "plain"
PonsAtoms == { PonsC3, PonsRed, PonsWait, PonsC0, PonsPlain, <<ChCaret>> }

\* the scenario line "^~c3~red^@^^~c0~plain"
PonsScenario == PonsC3 \o PonsRed \o PonsWait \o PonsC0 \o PonsPlain

\* the pieces the scripts of SpecTok are made of
TokAtoms ==
    { <<97>>,                                        \* "a"
      <<32>>,                                        \* " "
      <<44>>,                                        \* ","
      <<59>>,                                        \* ";"
      <<10>>,                                        \* LF
      <<37>>,                                        \* "%"
      <<49>>,                                        \* "1"
      <<45>>,                                        \* "-"
      <<42>>,                                        \* "*"
      <<63>>,                                        \* "?"
      <<64>>,                                        \* "@"
      <<36>>,                                        \* "$"
      <<58>>,                                        \* ":"
      <<NUL>>,
      <<ChMe>> }

\* the lines the scripts of SpecLang are made of
LangLines ==
    { StrLangjp \o <<32, 97>>,                       \* "langjp a"
      StrLangen \o <<32, 97>>,                       \* "langen a"
      StrLangjp,                                     \* "langjp"
      <<32>> \o StrLangen \o <<44, 49>>,              \* " langen,1"
      <<97>>,                                        \* "a"
      <<59, 99>> }                                   \* ";c"

\* ------------------------------------------------------------------------
\* nscli.run: the interpreter
\* ------------------------------------------------------------------------
\* the element of a one-element set: Value({f(x) : x \in {e}}) is f(e) with
\* e worked out once
Value(S) == CHOOSE x \in S : TRUE

\* _str_at(i): the fragment and the index after it; err when _err raised
\* SystemExit (or the index ran off the buffer)
RECURSIVE QuoteEnd(_, _)
QuoteEnd(s, j) ==
    IF j < Len(s) /\ At(s, j) # ChQuote /\ At(s, j) # LF THEN QuoteEnd(s, j + 1) ELSE j

RECURSIVE StarEnd(_, _)
StarEnd(s, j) ==
    IF j < Len(s) /\ (IsAlpha(At(s, j)) \/ IsDigit(At(s, j)) \/ At(s, j) = ChUnderscore)
    THEN StarEnd(s, j + 1) ELSE j

RECURSIVE str_at(_, _)
str_at(L, i0) ==
    LET s == L.buf
        n == Len(s)
        Fail == [s |-> <<>>, j |-> i0, err |-> TRUE]
        Close(f, j) ==
          IF j >= n \/ At(s, j) # ChRParen THEN Fail
          ELSE [s |-> f.s, j |-> j + 1, err |-> FALSE]
        Paren(f) == IF f.err THEN Fail ELSE Close(f, skip_ws(s, f.j))
        Var(no) == [s |-> vd(L, no.v).str, j |-> no.j, err |-> FALSE]
        Quoted(i, j) ==
          [s |-> Slice(s, i + 1, j),
           j |-> IF j < n /\ At(s, j) = ChQuote THEN j + 1 ELSE j, err |-> FALSE]
        Star(a, j) == [s |-> <<ChStar>> \o LowerSeq(Slice(s, a, j)), j |-> j, err |-> FALSE]
        Branch(i, ch) ==
          IF i >= n THEN Fail
          ELSE IF ch = ChLParen THEN Value({Paren(f) : f \in {str_at(L, i + 1)}})
          ELSE IF ch = ChDollar THEN Value({Var(no) : no \in {int_raw(L, i + 1)}})
          ELSE IF ch = ChQuote THEN Quoted(i, QuoteEnd(s, i + 1))
          ELSE IF ch = ChHash THEN [s |-> Slice(s, i, i + 7), j |-> i + 7, err |-> FALSE]
          ELSE IF ch = ChStar
          THEN Star(skip_ws(s, i + 1), StarEnd(s, skip_ws(s, i + 1)))
          ELSE [s |-> <<>>, j |-> i, err |-> FALSE]
        Start(i) == Branch(i, At(s, i))
    IN Start(skip_ws(s, i0))

\* read_str(): fragments joined by "+"; the string and the lexer after it
RECURSIVE StrParts(_, _, _)
StrParts(L, i, parts) ==
    LET More(f, c) ==
          IF c.i >= Len(L.buf) \/ At(L.buf, c.i) # ChPlus
          THEN [s |-> parts \o f.s, L |-> [L EXCEPT !.i = c.i, !.end = c.end]]
          ELSE StrParts([L EXCEPT !.end = c.end], c.i + 1, parts \o f.s)
        Frag(f) ==
          IF f.err THEN [s |-> <<>>, L |-> [L EXCEPT !.err = TRUE]]
          ELSE More(f, eat_comma(L.buf, f.j, L.end))
    IN Value({Frag(f) : f \in {str_at(L, i)}})

read_str(L) == StrParts(L, L.i, <<>>)

\* read_ident(): the lowered name (has = FALSE for None) and the lexer
read_ident(L) ==
    LET s == L.buf
        Name(i, j, c) ==
          [has |-> TRUE, name |-> LowerSeq(Slice(s, i, j)),
           L |-> [L EXCEPT !.i = c.i, !.end = c.end]]
        Ident(i) ==
          IF i < Len(s) /\ is_id0(At(s, i))
          THEN Name(i, ScanId(s, i), eat_comma(s, ScanId(s, i), L.end))
          ELSE [has |-> FALSE, name |-> <<>>, L |-> L]
    IN Ident(skip_ws(s, L.i))

\* add_numalias(name, val)
add_numalias(L, name, val) ==
    [L EXCEPT !.num_alias = [k \in DOMAIN L.num_alias \cup {LowerSeq(name)} |->
                               IF k = LowerSeq(name) THEN val ELSE L.num_alias[k]]]

\* ------------------------------------------------------------------------
\* nscli.run: the interpreter
\* ------------------------------------------------------------------------
\* prepass_decls: every token from offset 0 to the end, numalias and dim
\* executed, then cursor, line and end flags put back.  err when SystemExit
\* or the assertion of _array_at leaves the pass.
PrepassOn(L) == [L |-> L, stop |-> L.err]

\* numalias: read_ident(), read_int(), add_numalias when there is a name
PrepassAlias(id) ==
    Value({PrepassOn(IF ~v.L.err /\ id.has THEN add_numalias(v.L, id.name, v.v) ELSE v.L) :
             v \in {read_int(id.L)}})

\* dim: declare_dim()
PrepassDim(L) ==
    IF At(L.buf, skip_ws(L.buf, L.i)) # ChQuestion THEN PrepassOn([L EXCEPT !.err = TRUE])
    ELSE Value({PrepassOn(L1) : L1 \in {declare_dim(L)}})

PrepassDecl(r) ==
    IF r.L.err \/ r.tok.kind = "eof" THEN [L |-> r.L, stop |-> TRUE]
    ELSE IF r.tok.kind # "cmd" THEN PrepassOn(r.L)
    ELSE IF r.tok.text = StrNumalias THEN Value({PrepassAlias(id) : id \in {read_ident(r.L)}})
    ELSE IF r.tok.text = StrDim THEN PrepassDim(r.L)
    ELSE PrepassOn(r.L)

PrepassStep(L) == Value({PrepassDecl(r) : r \in {next_token(L)}})

RECURSIVE PrepassLoop(_)
PrepassLoop(L) ==
    Value({IF r.stop THEN r.L ELSE PrepassLoop(r.L) : r \in {PrepassStep(L)}})

prepass_decls(L) ==
    LET Back(L1) == IF L1.err THEN L1
                    ELSE [L1 EXCEPT !.i = L.i, !.line = L.line, !.end = L.end]
    IN Back(PrepassLoop(seek(L, 0)))

\* one turn of the loop of read_args: stop at a break
ArgBreak(L, args) == [L |-> L, args |-> args, stop |-> TRUE]

ArgAgain(L, args, r, a) ==
    IF r.L.err THEN ArgBreak(r.L, args)
    ELSE [L |-> r.L, args |-> Append(args, a), stop |-> r.L.i = L.i]

ArgStr(L, args, r) == ArgAgain(L, args, r, [is_str |-> TRUE, s |-> r.s, v |-> 0])

ArgInt(L, args, r) ==
    IF ~r.L.err /\ r.L.i = L.i THEN ArgBreak(r.L, args)
    ELSE ArgAgain(L, args, r, [is_str |-> FALSE, s |-> <<>>, v |-> r.v])

ArgStep(L, args) ==
    LET i == skip_ws(L.buf, L.i)
        ch == At(L.buf, i)
    IN IF i >= Len(L.buf) THEN ArgBreak(L, args)
       ELSE IF ch \in {LF, ChColon, ChTilde, ChSemi, ChStar}
       THEN ArgBreak(IF ch = ChStar THEN [L EXCEPT !.i = i] ELSE L, args)
       ELSE IF ch \in {ChQuote, ChDollar, ChHash, ChLParen}
       THEN Value({ArgStr(L, args, r) : r \in {read_str(L)}})
       ELSE Value({ArgInt(L, args, r) : r \in {read_int(L)}})

\* read_args(lx): the arguments (strings and integers) and the lexer
RECURSIVE read_args(_, _)
read_args(L, args) ==
    Value({IF r.stop THEN [L |-> r.L, args |-> r.args] ELSE read_args(r.L, r.args) :
             r \in {ArgStep(L, args)}})

\* the comparison of parse_if_cond
IfCmp(op, a, b) ==
    CASE op = "=" -> a = b
      [] op = "!=" -> a # b
      [] op = ">" -> a > b
      [] op = "<" -> a < b
      [] op = ">=" -> a >= b
      [] op = "<=" -> a <= b
      [] OTHER -> FALSE

\* the operator at j and the index after it; "" when there is none, "none"
\* for a "!" that no "=" follows
IfOp(s, j) ==
    LET n == Len(s)
        ch == At(s, j)
        two == j + 1 < n /\ At(s, j + 1) = ChEq
    IN IF j < n /\ ch = ChEq THEN [op |-> "=", j |-> IF two THEN j + 2 ELSE j + 1]
       ELSE IF j < n /\ ch = ChBang
       THEN (IF two THEN [op |-> "!=", j |-> j + 2] ELSE [op |-> "none", j |-> j])
       ELSE IF j < n /\ ch = ChGt
       THEN (IF two THEN [op |-> ">=", j |-> j + 2] ELSE [op |-> ">", j |-> j + 1])
       ELSE IF j < n /\ ch = ChLt
       THEN (IF two THEN [op |-> "<=", j |-> j + 2] ELSE [op |-> "<", j |-> j + 1])
       ELSE [op |-> "", j |-> j]

IfRhs(o, lhs, L) ==
    IF o.op = "" THEN [ok |-> lhs # 0, L |-> L]
    ELSE Value({[ok |-> ~r.L.err /\ IfCmp(o.op, lhs, r.v), L |-> r.L] :
                  r \in {read_int([L EXCEPT !.i = o.j])}})

IfLhs(r) ==
    IF r.L.err THEN [ok |-> FALSE, L |-> r.L]
    ELSE Value({IfRhs(o, r.v, r.L) : o \in {IfOp(r.L.buf, skip_ws(r.L.buf, r.L.i))}})

\* parse_if_cond(lx): the truth of the condition and the lexer after it
parse_if_cond(L) == Value({IfLhs(r) : r \in {read_int(L)}})

\* str.lstrip("*")
RECURSIVE LStripStar(_)
LStripStar(s) == IF s # <<>> /\ Head(s) = ChStar THEN LStripStar(Tail(s)) ELSE s

\* what a turn of the loop executed: the command, whether it named a
\* target, the target, whether jump_label found it, whether an if led to it
NoStep == [cmd |-> "none", has |-> FALSE, tgt |-> <<>>, found |-> FALSE, inner |-> FALSE]

\* goto/jump, gosub and return, as the loop runs them directly and after
\* an if.  calls is the bookkeeping of the gosubs that jumped and have not
\* returned; the code keeps cs only.
Control(L, cs, calls, name, args, inner) ==
    LET has == args # <<>> /\ args[1].is_str
        Did(cmd, tgt, found) ==
          [cmd |-> cmd, has |-> has, tgt |-> tgt, found |-> found, inner |-> inner]
        Goto(tgt, j) ==
          [L |-> IF j.err THEN L ELSE j, cs |-> cs, calls |-> calls,
           last |-> Did("goto", tgt, ~j.err)]
        Gosub(tgt, j) ==
          [L |-> IF j.err THEN L ELSE j,
           cs |-> Append(cs, <<L.i, L.line, L.end>>),
           calls |-> IF j.err THEN calls ELSE Append(calls, L.i),
           last |-> Did("gosub", tgt, ~j.err)]
        Return(top) ==
          [L |-> [L EXCEPT !.i = top[1], !.line = top[2], !.end = top[3]],
           cs |-> SubSeq(cs, 1, Len(cs) - 1),
           calls |-> SubSeq(calls, 1, Len(calls) - 1),
           last |-> Did("return", <<>>, TRUE)]
        Nothing(cmd) == [L |-> L, cs |-> cs, calls |-> calls, last |-> Did(cmd, <<>>, FALSE)]
        Target(tgt) ==
          Value({IF name \in {StrGoto, StrJump} THEN Goto(tgt, j) ELSE Gosub(tgt, j) :
                   j \in {jump_label(L, tgt)}})
    IN IF name = StrReturn
       THEN (IF cs # <<>> THEN Return(cs[Len(cs)]) ELSE Nothing("return"))
       ELSE IF has THEN Value({Target(tgt) : tgt \in {LStripStar(args[1].s)}})
       ELSE Nothing(IF name = StrGosub THEN "gosub" ELSE "goto")

\* one turn of `while True` in run: a token, and for a command its
\* arguments and what it does to the cursor and the call stack.  pc is
\* "done" at eof and "exit" when SystemExit leaves run.
IsControl(name) == name \in {StrGoto, StrJump, StrGosub, StrReturn}

TurnStay(L, t, cs, calls, cmd) ==
    [pc |-> "loop", L |-> L, tok |-> t, cs |-> cs, calls |-> calls,
     last |-> [NoStep EXCEPT !.cmd = cmd]]

TurnExit(L, t, cs, calls) ==
    [pc |-> "exit", L |-> L, tok |-> t, cs |-> cs, calls |-> calls, last |-> NoStep]

TurnCtl(t, c) ==
    [pc |-> "loop", L |-> c.L, tok |-> t, cs |-> c.cs, calls |-> c.calls, last |-> c.last]

\* the command after a true if
TurnCmd2(t2, a2, cs, calls) ==
    IF a2.L.err THEN TurnExit(a2.L, t2, cs, calls)
    ELSE IF IsControl(t2.text)
    THEN Value({TurnCtl(t2, c) : c \in {Control(a2.L, cs, calls, t2.text, a2.args, TRUE)}})
    ELSE TurnStay(a2.L, t2, cs, calls, "if")

TurnInner(r2, cs, calls) ==
    IF r2.L.err THEN TurnExit(r2.L, r2.tok, cs, calls)
    ELSE IF r2.tok.kind = "cmd"
    THEN Value({TurnCmd2(r2.tok, a2, cs, calls) : a2 \in {read_args(r2.L, <<>>)}})
    ELSE TurnStay(r2.L, r2.tok, cs, calls, "if")

TurnIf(t, c, cs, calls) ==
    IF c.L.err THEN TurnExit(c.L, t, cs, calls)
    ELSE IF ~c.ok THEN TurnStay(skip_to_eol(c.L), t, cs, calls, "if")
    ELSE Value({TurnInner(r2, cs, calls) : r2 \in {next_token(c.L)}})

TurnCmd(t, a, cs, calls) ==
    IF a.L.err THEN TurnExit(a.L, t, cs, calls)
    ELSE IF IsControl(t.text)
    THEN Value({TurnCtl(t, c) : c \in {Control(a.L, cs, calls, t.text, a.args, FALSE)}})
    ELSE IF t.text = StrIf
    THEN Value({TurnIf(t, c, cs, calls) : c \in {parse_if_cond(a.L)}})
    ELSE TurnStay(a.L, t, cs, calls, "cmd")

TurnTok(r, cs, calls) ==
    IF r.L.err THEN TurnExit(r.L, r.tok, cs, calls)
    ELSE IF r.tok.kind = "eof"
    THEN [pc |-> "done", L |-> r.L, tok |-> r.tok, cs |-> cs, calls |-> calls,
          last |-> NoStep]
    ELSE IF r.tok.kind = "cmd"
    THEN Value({TurnCmd(r.tok, a, cs, calls) : a \in {read_args(r.L, <<>>)}})
    ELSE TurnStay(r.L, r.tok, cs, calls, "token")

Turn(L, cs, calls) == Value({TurnTok(r, cs, calls) : r \in {next_token(L)}})

\* run up to the loop: Lexer(), expand_in_text, open(arc), prepass_decls;
\* run returns 1 when open() fails
RunOpen ==
    /\ run_pc = "new"
    /\ \E r \in {open(lx, dir)} :
          \E L1 \in {IF r.rc < 0 THEN r.L ELSE prepass_decls(r.L)} :
             /\ lx' = L1
             /\ run_pc' = IF r.rc < 0 THEN "failed" ELSE IF L1.err THEN "exit" ELSE "loop"
    /\ call' = "open"
    /\ UNCHANGED <<dir, tok, rv, expr_in, callstack, run_last, run_open>>

\* one turn of the loop
RunStep ==
    /\ run_pc = "loop" /\ Len(callstack) < MaxCallDepth
    /\ \E t \in {Turn(lx, callstack, run_open)} :
          /\ lx' = t.L /\ tok' = t.tok /\ run_pc' = t.pc
          /\ callstack' = t.cs /\ run_open' = t.calls /\ run_last' = t.last
    /\ call' = "next"
    /\ UNCHANGED <<dir, rv, expr_in>>

\* the lines the scripts of SpecRun are made of
RunLines ==
    { StrGosub \o <<32, 34, 97, 34>>,                           \* gosub "a"
      StrGosub \o <<32, 34, 122, 122, 34>>,                     \* gosub "zz"
      StrGoto \o <<32, 34, 97, 34>>,                            \* goto "a"
      StrReturn,                                                \* return
      <<42, 97>>,                                               \* *a
      <<120>>,                                                  \* x
      <<105, 102, 32, 48, 61, 48, 32>> \o StrGosub \o <<32, 34, 122, 122, 34>>,  \* if 0=0 gosub "zz"
      <<105, 102, 32, 48, 61, 48, 32>> \o StrGosub \o <<32, 34, 97, 34>>,        \* if 0=0 gosub "a"
      <<105, 102, 32, 48, 61, 48, 32>> \o StrReturn }           \* if 0=0 return

\* run(arc) on a directory whose 0.txt holds the script
RunStart ==
    /\ \E ls \in SeqsUpTo(RunLines, MaxRunLines) : dir = Container("0.txt", Lines(ls))
    /\ lx = LexerNew(TRUE) /\ call = "new" /\ tok = NoToken /\ rv = 0 /\ expr_in = <<>>
    /\ run_pc = "new" /\ callstack = <<>> /\ run_last = NoStep /\ run_open = <<>>

RunIdle == run_pc = "idle" /\ callstack = <<>> /\ run_last = NoStep /\ run_open = <<>>

\* the lexer as constructed, before open()
LexNew(d) ==
    /\ dir = d
    /\ \E e \in BOOLEAN : lx = LexerNew(e)
    /\ call = "new"
    /\ tok = NoToken
    /\ rv = 0

LexIdle ==
    /\ dir = <<>> /\ lx = LexerNew(FALSE) /\ call = "none"
    /\ tok = NoToken /\ rv = 0 /\ expr_in = <<>>

CfgStart ==
    /\ \E ls \in SeqsUpTo(CfgLines, MaxCfgLines) : LexNew(Container("nscript.dat", Lines(ls)))
    /\ expr_in = <<>>

LabelsStart ==
    /\ \E ls \in SeqsUpTo(LabelLines, MaxLabelLines) : LexNew(Container("0.txt", Lines(ls)))
    /\ expr_in = <<>>

LangStart ==
    /\ \E ls \in SeqsUpTo(LangLines, MaxLangLines) : LexNew(Container("0.txt", Lines(ls)))
    /\ expr_in = <<>>

PonsStart ==
    /\ \E ps \in SeqsUpTo(PonsAtoms, MaxPonsAtoms) : LexNew(Container("pscript.dat", Flatten(ps)))
    /\ expr_in = <<>>

TokStart ==
    /\ \E ps \in SeqsUpTo(TokAtoms, MaxTokAtoms) : LexNew(Container("0.txt", Flatten(ps)))
    /\ expr_in = <<>>

\* the base files of a plain series and the numbered files next to them
SeriesBases == {"0.txt", "0.utf", "00.txt"}
SeriesStems == {"1", "01", "2", "10"}
BaseTexts == { <<98>>, <<42, 98, 10, 104, 105>> }        \* "b", "*b\nhi"
StemText(stem) ==
    CASE stem = "1" -> <<112>>                           \* "p"
      [] stem = "01" -> <<113, 10>>                      \* "q\n"
      [] stem = "2" -> <<114, 13>>                       \* "r\r"
      [] OTHER -> <<42, 115>>                            \* "*s"

\* a directory with one base file and any of the numbered files of its
\* extension; expr_in keeps what the directory was made of
SeriesStart ==
    \E base \in SeriesBases, text \in BaseTexts, stems \in SUBSET SeriesStems :
        /\ LexNew([nm \in {base} \cup {st \o ExtOf(base) : st \in stems} |->
                     IF nm = base THEN text
                     ELSE StemText(CHOOSE st \in stems : st \o ExtOf(base) = nm)])
        /\ expr_in = [base |-> base, stems |-> stems]

\* the pieces the scripts of SpecDia are made of
DiaAtoms ==
    { <<64>>,                                        \* "@"
      <<92>>,                                        \* "\"
      <<33, 97>>,                                    \* "!a"
      <<10>>,                                        \* LF
      <<103, 111, 32, 49>>,                          \* "go 1"
      <<59, 99>>,                                    \* ";c"
      <<42, 108>> }                                  \* "*l"

\* nsdia.py run on a directory, with or without --no-clean
DiaStart ==
    /\ \E ps \in SeqsUpTo(DiaAtoms, MaxDiaAtoms) : LexNew(Container("0.txt", Flatten(ps)))
    /\ expr_in = <<>>
    /\ dia_pc = "start"
    /\ dia_no_clean \in BOOLEAN
    /\ dia_chunks = <<>>
    /\ dia_last_nl = TRUE

\* ------------------------------------------------------------------------
\* Expressions: token sequences, their text, and their conventional value
\* ------------------------------------------------------------------------
\* a token is <<kind, value>>: a number <<"n", v>> or a symbol <<sym, 0>>
Num(v) == <<"n", v>>
Sym(c) == <<c, 0>>

ExprNums == {0, 2, 3, 4, 10}
MulOps == {"*", "/", "mod"}
AddOps == {"+", "-"}
ExprTokens == {Num(v) : v \in ExprNums} \cup {Sym(c) : c \in MulOps \cup AddOps \cup {"(", ")"}}

\* the text of one token
RenderTok(t) ==
    IF t[1] = "n" THEN DigitsOf(t[2])
    ELSE IF t[1] = "+" THEN <<ChPlus>>
    ELSE IF t[1] = "-" THEN <<ChMinus>>
    ELSE IF t[1] = "*" THEN <<ChStar>>
    ELSE IF t[1] = "/" THEN <<ChSlash>>
    ELSE IF t[1] = "mod" THEN StrMod
    ELSE IF t[1] = "(" THEN <<ChLParen>>
    ELSE <<ChRParen>>

\* the text of an expression, the tokens separated by blanks when sp
Render(ts, sp) ==
    Flatten([k \in 1..Len(ts) |->
               (IF sp /\ k > 1 THEN <<SPACE>> ELSE <<>>) \o RenderTok(ts[k])])

\* the arithmetic of one binary operator: a zero divisor yields 0, the
\* quotient is truncated toward zero, the remainder has the divisor's sign
RefBin(a, o, b) ==
    IF o = "+" THEN a + b
    ELSE IF o = "-" THEN a - b
    ELSE IF o = "*" THEN a * b
    ELSE IF b = 0 THEN 0
    ELSE IF o = "/" THEN
        (IF (a < 0) = (b < 0) THEN Abs(a) \div Abs(b) ELSE -(Abs(a) \div Abs(b)))
    ELSE (IF b > 0 THEN a % b ELSE -((-a) % (-b)))

RefFail == [ok |-> FALSE, v |-> 0, rest |-> <<>>]

\* the conventional grammar, by recursive descent:
\*   expr   ::= term   { (+|-) term }
\*   term   ::= factor { (*|/|mod) factor }
\*   factor ::= [-] ( number | "(" expr ")" )
RECURSIVE RefExpr(_), RefExprLoop(_, _), RefTermLoop(_, _)
RefPrimary(ts) ==
    IF ts = <<>> THEN RefFail
    ELSE IF Head(ts)[1] = "n" THEN [ok |-> TRUE, v |-> Head(ts)[2], rest |-> Tail(ts)]
    ELSE IF Head(ts)[1] = "(" THEN
        LET e == RefExpr(Tail(ts))
        IN IF e.ok /\ e.rest # <<>> /\ Head(e.rest)[1] = ")"
           THEN [ok |-> TRUE, v |-> e.v, rest |-> Tail(e.rest)]
           ELSE RefFail
    ELSE RefFail

RefFactor(ts) ==
    IF ts # <<>> /\ Head(ts)[1] = "-" THEN
        LET p == RefPrimary(Tail(ts))
        IN IF p.ok THEN [p EXCEPT !.v = -p.v] ELSE RefFail
    ELSE RefPrimary(ts)

RefTermLoop(acc, ts) ==
    IF ts # <<>> /\ Head(ts)[1] \in MulOps THEN
        LET f == RefFactor(Tail(ts))
        IN IF f.ok THEN RefTermLoop(RefBin(acc, Head(ts)[1], f.v), f.rest) ELSE RefFail
    ELSE [ok |-> TRUE, v |-> acc, rest |-> ts]

RefTerm(ts) ==
    LET f == RefFactor(ts) IN IF f.ok THEN RefTermLoop(f.v, f.rest) ELSE RefFail

RefExprLoop(acc, ts) ==
    IF ts # <<>> /\ Head(ts)[1] \in AddOps THEN
        LET t == RefTerm(Tail(ts))
        IN IF t.ok THEN RefExprLoop(RefBin(acc, Head(ts)[1], t.v), t.rest) ELSE RefFail
    ELSE [ok |-> TRUE, v |-> acc, rest |-> ts]

RefExpr(ts) ==
    LET t == RefTerm(ts) IN IF t.ok THEN RefExprLoop(t.v, t.rest) ELSE RefFail

WellFormed(ts) == LET e == RefExpr(ts) IN e.ok /\ e.rest = <<>>
RefValue(ts) == RefExpr(ts).v

\* may token t stand after token p (p = Sym("(") standing for the start)
CanFollow(p, t) ==
    IF p[1] \in {"n", ")"} THEN t[1] \in MulOps \cup AddOps \cup {")"}
    ELSE t[1] \in {"n", "(", "-"}

\* every token of ts may follow its predecessor
Adjacent(ts) ==
    \A k \in 1..Len(ts) : CanFollow(IF k = 1 THEN Sym("(") ELSE ts[k - 1], ts[k])

Ex_2p3t4 == <<Num(2), Sym("+"), Num(3), Sym("*"), Num(4)>>
Ex_p2p3pt4 == <<Sym("("), Num(2), Sym("+"), Num(3), Sym(")"), Sym("*"), Num(4)>>
Ex_10mod3 == <<Num(10), Sym("mod"), Num(3)>>
Ex_10div0 == <<Num(10), Sym("/"), Num(0)>>

\* the four expressions of the documentation
ExprExamples == {Ex_2p3t4, Ex_p2p3pt4, Ex_10mod3, Ex_10div0}

\* the well-formed expressions of exactly k tokens
ExprsOfLen(k) == {ts \in [1..k -> ExprTokens] : Adjacent(ts) /\ WellFormed(ts)}

\* the expression is one of the documentation or a well-formed one of at
\* most MaxExprTokens tokens, written with or without blanks
ExprStart ==
    /\ \/ expr_in \in ExprExamples
       \/ \E k \in 1..MaxExprTokens : expr_in \in ExprsOfLen(k)
    /\ \E sp \in BOOLEAN : LexNew(Container("0.txt", Render(expr_in, sp) \o <<LF>>))

\* "?no[i1]..[ik]"
RenderArr(no, idx) ==
    <<ChQuestion>> \o IntToStr(no)
    \o Flatten([k \in 1..Len(idx) |-> <<ChLBracket>> \o IntToStr(idx[k]) \o <<ChRBracket>>])

\* a script that declares one array and then refers to an element: the
\* text after `dim` and the operand of a later command
ArrStart ==
    /\ \E dno \in {0, 1}, ddims \in {<<2>>, <<1, 1>>}, rno \in {0, 1, 2} :
          \E ridx \in [1..Len(ddims) -> -1..MaxArrIndex] :
             /\ expr_in = [decl |-> [no |-> dno, dims |-> ddims],
                           ref |-> [no |-> rno, idx |-> ridx]]
             /\ LexNew(Container("0.txt", RenderArr(dno, ddims) \o <<SPACE>>
                                           \o RenderArr(rno, ridx) \o <<LF>>))

\* ------------------------------------------------------------------------
\* Specifications
\* ------------------------------------------------------------------------
InitSpb == SpbStart /\ LzIdle /\ LexIdle /\ DecIdle /\ DiaIdle /\ AexIdle /\ VolIdle /\ BitIdle /\ RdIdle /\ RunIdle
NextSpb == SpbConvert
SpecSpb == InitSpb /\ [][NextSpb]_vars

\* the decoder with a deadline
SpecSpbTimed == InitSpb /\ [][SpbConvertTimed]_vars

InitLzss == SpbIdle /\ LzStart /\ LexIdle /\ DecIdle /\ DiaIdle /\ AexIdle /\ VolIdle /\ BitIdle /\ RdIdle /\ RunIdle
NextLzss ==
    \/ (LzLiteral /\ UNCHANGED <<spbVars, lexVars, decVars, diaVars, aexVars, volVars, bitVars, rdVars, runVars>>)
    \/ (LzBackref /\ UNCHANGED <<spbVars, lexVars, decVars, diaVars, aexVars, volVars, bitVars, rdVars, runVars>>)
    \/ (LzEof /\ UNCHANGED <<spbVars, lexVars, decVars, diaVars, aexVars, volVars, bitVars, rdVars, runVars>>)
    \/ (LzReturn /\ UNCHANGED <<spbVars, lexVars, decVars, diaVars, aexVars, volVars, bitVars, rdVars, runVars>>)
SpecLzss == InitLzss /\ [][NextLzss]_vars

NoDecoders == UNCHANGED <<spbVars, lzVars, decVars, diaVars, aexVars, volVars, bitVars, rdVars, runVars>>

InitCfg == SpbIdle /\ LzIdle /\ CfgStart /\ DecIdle /\ DiaIdle /\ AexIdle /\ VolIdle /\ BitIdle /\ RdIdle /\ RunIdle
NextCfg == Open /\ NoDecoders
SpecCfg == InitCfg /\ [][NextCfg]_vars

InitLabel == SpbIdle /\ LzIdle /\ LabelsStart /\ DecIdle /\ DiaIdle /\ AexIdle /\ VolIdle /\ BitIdle /\ RdIdle /\ RunIdle
NextLabel ==
    \/ (Open /\ NoDecoders)
    \/ (Next /\ NoDecoders)
    \/ (\E nm \in LabelNames : JumpLabel(nm) /\ NoDecoders)
SpecLabel == InitLabel /\ [][NextLabel]_vars

InitPons == SpbIdle /\ LzIdle /\ PonsStart /\ DecIdle /\ DiaIdle /\ AexIdle /\ VolIdle /\ BitIdle /\ RdIdle /\ RunIdle
NextPons ==
    \/ (Open /\ NoDecoders)
    \/ (Next /\ NoDecoders)
    \/ (Peek /\ NoDecoders)
SpecPons == InitPons /\ [][NextPons]_vars

\* scripts with lines for one language
InitLang == SpbIdle /\ LzIdle /\ LangStart /\ DecIdle /\ DiaIdle /\ AexIdle /\ VolIdle /\ BitIdle /\ RdIdle /\ RunIdle
NextLang ==
    \/ (Open /\ NoDecoders)
    \/ (Next /\ NoDecoders)
SpecLang == InitLang /\ [][NextLang]_vars

\* the interpreter on scripts of gosub, goto, return and if lines
NoOtherProgram == UNCHANGED <<spbVars, lzVars, decVars, diaVars, aexVars, volVars, bitVars, rdVars>>
InitRun == SpbIdle /\ LzIdle /\ RunStart /\ DecIdle /\ DiaIdle /\ AexIdle /\ VolIdle /\ BitIdle /\ RdIdle
NextRun ==
    \/ (RunOpen /\ NoOtherProgram)
    \/ (RunStep /\ NoOtherProgram)
SpecRun == InitRun /\ [][NextRun]_vars

InitTok == SpbIdle /\ LzIdle /\ TokStart /\ DecIdle /\ DiaIdle /\ AexIdle /\ VolIdle /\ BitIdle /\ RdIdle /\ RunIdle
NextTok ==
    \/ (Open /\ NoDecoders)
    \/ (Next /\ NoDecoders)
    \/ (Peek /\ NoDecoders)
SpecTok == InitTok /\ [][NextTok]_vars

InitExpr == SpbIdle /\ LzIdle /\ ExprStart /\ DecIdle /\ DiaIdle /\ AexIdle /\ VolIdle /\ BitIdle /\ RdIdle /\ RunIdle
NextExpr ==
    \/ (Open /\ NoDecoders)
    \/ (ReadInt /\ NoDecoders)
SpecExpr == InitExpr /\ [][NextExpr]_vars

\* the client opens a plain series and reads its tokens
InitSeries == SpbIdle /\ LzIdle /\ SeriesStart /\ DecIdle /\ DiaIdle /\ AexIdle /\ VolIdle /\ BitIdle /\ RdIdle /\ RunIdle
NextSeries ==
    \/ (Open /\ NoDecoders)
    \/ (Next /\ NoDecoders)
SpecSeries == InitSeries /\ [][NextSeries]_vars

\* the dialogue dumper
InitDia == SpbIdle /\ LzIdle /\ DiaStart /\ DecIdle /\ AexIdle /\ VolIdle /\ BitIdle /\ RdIdle /\ RunIdle
NextDia ==
    \/ (DiaOpen /\ UNCHANGED <<spbVars, lzVars, decVars, aexVars, volVars, bitVars, rdVars, runVars>>)
    \/ (DiaStep /\ UNCHANGED <<spbVars, lzVars, decVars, aexVars, volVars, bitVars, rdVars, runVars>>)
SpecDia == InitDia /\ [][NextDia]_vars

\* the archive extractor on one entry
InitAex == SpbIdle /\ LzIdle /\ LexIdle /\ DecIdle /\ DiaIdle /\ AexStart /\ VolIdle /\ BitIdle /\ RdIdle /\ RunIdle
NextAex == ProcessEntry /\ UNCHANGED <<spbVars, lzVars, lexVars, decVars, diaVars, volVars, bitVars, rdVars, runVars>>
SpecAex == InitAex /\ [][NextAex]_vars

InitVol == SpbIdle /\ LzIdle /\ LexIdle /\ DecIdle /\ DiaIdle /\ AexIdle /\ VolStart /\ BitIdle /\ RdIdle /\ RunIdle
NextVol ==
    \/ (VolOpen /\ UNCHANGED <<spbVars, lzVars, lexVars, decVars, diaVars, aexVars, bitVars, rdVars, runVars>>)
    \/ (VolEntry /\ UNCHANGED <<spbVars, lzVars, lexVars, decVars, diaVars, aexVars, bitVars, rdVars, runVars>>)
    \/ (VolReturn /\ UNCHANGED <<spbVars, lzVars, lexVars, decVars, diaVars, aexVars, bitVars, rdVars, runVars>>)
SpecVol == InitVol /\ [][NextVol]_vars

\* the bit reader under a client
NoBitClient == UNCHANGED <<spbVars, lzVars, lexVars, decVars, diaVars, aexVars, volVars, rdVars, runVars>>
InitBits == SpbIdle /\ LzIdle /\ LexIdle /\ DecIdle /\ DiaIdle /\ AexIdle /\ VolIdle /\ BitStart /\ RdIdle /\ RunIdle
NextBits ==
    \/ (\E n \in 0..MaxGetBits : GetBits(n) /\ NoBitClient)
    \/ (GetU8 /\ NoBitClient)
SpecBits == InitBits /\ [][NextBits]_vars

\* one file under read_one
NoLoader == UNCHANGED <<spbVars, lzVars, lexVars, decVars, diaVars, aexVars, volVars, bitVars, runVars>>
InitRd == SpbIdle /\ LzIdle /\ LexIdle /\ DecIdle /\ DiaIdle /\ AexIdle /\ VolIdle /\ BitIdle /\ RdStart /\ RunIdle
NextRd ==
    \/ (\E n \in 1..MaxReadChunk : ReadChunk(n) /\ NoLoader)
    \/ (ReadEof /\ NoLoader)
SpecRd == InitRd /\ [][NextRd]_vars

\* the client declares the array, then reads the element
InitArr == SpbIdle /\ LzIdle /\ ArrStart /\ DecIdle /\ DiaIdle /\ AexIdle /\ VolIdle /\ BitIdle /\ RdIdle /\ RunIdle
NextArr ==
    \/ (Open /\ NoDecoders)
    \/ (call = "open" /\ DeclareDim /\ NoDecoders)
    \/ (ReadInt /\ NoDecoders)
SpecArr == InitArr /\ [][NextArr]_vars

NoOtherTool == UNCHANGED <<spbVars, lzVars, lexVars, diaVars, aexVars, volVars, bitVars, rdVars, runVars>>

InitDec == SpbIdle /\ LzIdle /\ LexIdle /\ DecStart /\ DiaIdle /\ AexIdle /\ VolIdle /\ BitIdle /\ RdIdle /\ RunIdle
NextDec ==
    \/ (EncryptChunk /\ NoOtherTool)
    \/ (EncryptEnd /\ NoOtherTool)
    \/ (DecryptChunk /\ NoOtherTool)
    \/ (DecryptEnd /\ NoOtherTool)
SpecDec == InitDec /\ [][NextDec]_vars

\* ------------------------------------------------------------------------
\* Properties
\* ------------------------------------------------------------------------
\* the column a zigzag scan gives the k-th value of row y
ZigzagCol(y, k, width) == IF y % 2 = 0 THEN k ELSE width - 1 - k

\* C1: with scan = zigzag, for every plane and every row y, the decoded
\* plane value at index y*width + k is written to image row y at column k
\* when y is even and at column width-1-k when y is odd; no row is written
\* twice and no row is left unwritten.
C1_ZigzagRows ==
    (spb_res.status = "ok" /\ scan = "zigzag") =>
        \A n \in 1..3 :
            LET w == spb_res.writes[n]
                W == spb_res.width
                H == spb_res.height
                byte == plane_order(plane)[n]
            IN /\ \A y \in 0..(H - 1), k \in 0..(W - 1) :
                    \E j \in 1..Len(w) :
                        w[j] = <<(y * W + ZigzagCol(y, k, W)) * 3 + byte, y * W + k>>
               /\ \A i, j \in 1..Len(w) : i # j => w[i][1] # w[j][1]

\* C2: with plane = bgr the first decoded plane supplies byte 0 (B) of
\* every 3-byte pixel, the second byte 1 (G) and the third byte 2 (R); with
\* plane = rgb the assignment is reversed.
C2_PlaneBytes ==
    spb_res.status = "ok" =>
        \A n \in 1..3 :
            \A j \in 1..Len(spb_res.writes[n]) :
                spb_res.writes[n][j][1] % 3 = (IF plane = "bgr" THEN n - 1 ELSE 3 - n)

\* C10: the LZSS decoder never holds more than S bytes, it returns fewer
\* than S bytes only when the bit reader signalled EndOfData, and a
\* back-reference copy that would exceed S stops mid-copy.
C10_LzssSize ==
    /\ Len(lz_out) <= lz_size
    /\ (lz_pc = "done" /\ Len(lz_out) < lz_size) => lz_eof

\* a decoder that returned after a back-reference was cut short at S bytes
C10_Witness == lz_pc = "done" /\ lz_cut /\ Len(lz_out) = lz_size /\ lz_size > 0

\* C3: opening an nscript.dat holding the XOR-0x84 image of
\* ";mode800,g300,v1000\n*A\nhi\n" yields mode() = (800, 600),
\* globals_border = 300 and var_range = 1000: the configuration is read from
\* the line that carries the first ';'.
C3_ScenarioConfig ==
    (call = "open" /\ dir = Container("nscript.dat", Scenario)) =>
        /\ lx.sw = 800 /\ lx.sh = 600
        /\ lx.glob_border = 300
        /\ lx.var_rng = 1000

\* C4: with Ponscripter mode active and the source line
\* ^~c3~red^@^^~c0~plain, the first next() returns a TEXT token "red@" of
\* colour 3 whose wait_at is just past the '@', and the next() after it a
\* TEXT token "plain" of colour 0.
C4_ColourSplitsText ==
    [][(dir = Container("pscript.dat", PonsScenario) /\ lx.pons /\ call' = "next") =>
          /\ call = "open" =>
                /\ tok'.kind = "text"
                /\ tok'.text = PonsRed \o <<ChAt>>
                /\ tok'.color = 3
                /\ tok'.wait_at \in {Len(PonsC3 \o PonsRed) + 2, Len(PonsC3 \o PonsRed \o PonsWait)}
          /\ (call = "next" /\ tok.kind = "text" /\ tok.text = PonsRed \o <<ChAt>>) =>
                /\ tok'.kind = "text"
                /\ tok'.text = PonsPlain
                /\ tok'.color = 0
      ]_vars

\* the offset of the LF that ends the line holding offset i (Len when none)
LineEnd(s, i) == FindChar(s, i, LF)

\* C5: for every label of the index, the body position is strictly greater
\* than the offset of the LF that terminates the label's header line,
\* whatever follows the identifier on that line.
C5_BodyPastTerminator ==
    call # "new" =>
        \A k \in 1..lx.num_labels :
            LineEnd(lx.buf, lx.labels[k].hdr) < Len(lx.buf) =>
                lx.labels[k].start > LineEnd(lx.buf, lx.labels[k].hdr)

\* the tokenizer run from the header of label k: the LABEL token, the token
\* after it, and the token after that
FromHeader(k) ==
    LET t1 == next_token(seek(lx, lx.labels[k].hdr))
        t2 == next_token(t1.L)
        t3 == next_token(t2.L)
    IN [label |-> t1.tok, term |-> t2.tok, begin |-> skip_ws(lx.buf, t2.L.i),
        first |-> t3.tok]

\* C6: for every label of the index whose header is followed by its line
\* terminator, the body position is the position where the tokenizer, run
\* from the header, begins the first token after the LABEL token and the
\* terminator; jump_label(name) followed by next() returns that token.
C6_BodyIsFirstToken ==
    call # "new" =>
        \A k \in 1..lx.num_labels :
            (FromHeader(k).label.kind = "label" /\ FromHeader(k).term.kind = "nl") =>
                /\ lx.labels[k].start = FromHeader(k).begin
                /\ find_label(lx, lx.labels[k].name) = k =>
                      next_token(jump_label(lx, lx.labels[k].name)).tok = FromHeader(k).first

\* C7: read_int returns the value of the conventional evaluation of the
\* expression at the cursor: * / mod before + -, equal levels left to right,
\* unary minus on the factor that follows it, zero divisor yields 0.
C7_ReadIntValue ==
    [][(call = "open" /\ call' = "read_int") =>
          (~lx'.err /\ rv' = RefValue(expr_in))]_vars

\* read_int has evaluated 2+3*4 to 14
C7_Witness == call = "read_int" /\ expr_in = Ex_2p3t4 /\ rv = 14 /\ ~lx.err

\* C8: a next() never moves the cursor backwards, in either expand_in_text
\* mode.
C8_CursorMonotone == [][call' = "next" => lx'.i >= lx.i]_vars

\* a next() in expand mode has returned a text token and advanced the cursor
C8_Witness ==
    call = "next" /\ lx.expand_in_text /\ tok.kind = "text" /\ lx.i > 0 /\ lx.i = tok.pos

SameToken(a, b) == a.kind = b.kind /\ a.text = b.text /\ a.pos = b.pos /\ a.line = b.line

\* C9: a peek() that returns leaves cursor, line and end flags as they
\* were, and the next() after it returns a token of the same kind, text, pos
\* and line as a next() in place of the peek() would.
C9_PeekThenNext ==
    [][(call' = "peek" /\ ~lx'.err) =>
          /\ lx'.i = lx.i /\ lx'.line = lx.line /\ lx'.end = lx.end
          /\ SameToken(next_token(lx').tok, next_token(lx).tok)
      ]_vars

\* a peek() has returned a text token and put the cursor back before it
C9_Witness == call = "peek" /\ tok.kind = "text" /\ Len(tok.text) > 0 /\ lx.i < tok.pos

\* a plane scratch holding a value that no decoded byte can take
Stale(n) == [k \in 1..n |-> -1]

LE32At(b, off) ==
    b[off + 1] + 256 * b[off + 2] + 65536 * b[off + 3] + 16777216 * b[off + 4]

\* C12: the BMP has length 54 + height*(width*3 + pad) with
\* pad = (4 - (width*3) mod 4) mod 4; its file_size field is that length,
\* its width and height fields are the SPB width and height, the pixel data
\* offset is 54, and output row y holds image row height-1-y followed by
\* pad zero bytes.
C12_BmpLayout ==
    spb_res.status = "ok" =>
        LET W == spb_res.width
            H == spb_res.height
            pad == (4 - ((W * 3) % 4)) % 4
            bmp == spb_res.bmp
        IN /\ Len(bmp) = 54 + H * (W * 3 + pad)
           /\ Len(bmp) = expected_24bpp_bmp_size(W, H)
           /\ bmp[1] = 66 /\ bmp[2] = 77
           /\ LE32At(bmp, 2) = Len(bmp)
           /\ LE32At(bmp, 10) = 54
           /\ LE32At(bmp, 18) = W
           /\ LE32At(bmp, 22) = H
           /\ \A y \in 0..(H - 1) :
                 /\ \A c \in 0..(W * 3 - 1) :
                       bmp[54 + y * (W * 3 + pad) + c + 1]
                           = spb_res.rgb[(H - 1 - y) * W * 3 + c + 1]
                 /\ \A c \in (W * 3)..(W * 3 + pad - 1) :
                       bmp[54 + y * (W * 3 + pad) + c + 1] = 0

\* a padded image of three rows whose top and bottom rows differ
C12_Witness ==
    /\ spb_res.status = "ok"
    /\ spb_res.height = 3 /\ spb_res.width = 1
    /\ SubSeq(spb_res.rgb, 1, 3) # SubSeq(spb_res.rgb, 7, 9)

\* C13: for every byte sequence F, encrypt followed by the raw decryption
\* returns F byte for byte, with the same length, whatever the chunks the
\* reads returned.
C13_XorRoundTrip ==
    /\ dec_pc = "done" => (dec_out = dec_plain /\ Len(dec_out) = Len(dec_plain))
    /\ dec_pc \in {"decrypt", "done"} =>
          (Len(dec_dat) = Len(dec_plain) /\ dec_out = SubSeq(dec_plain, 1, Len(dec_out)))

\* a three-byte file that went through both passes in chunks of different
\* sizes and whose encrypted image differs from it in every byte
C13_Witness ==
    /\ dec_pc = "done" /\ Len(dec_plain) = 3 /\ dec_reads = 4
    /\ dec_out = dec_plain
    /\ \A k \in 1..3 : dec_dat[k] # dec_plain[k]

\* the reference names an array that was not declared, or an index outside
\* 0..declared maximum in some dimension
OutOfRange(in) ==
    \/ in.ref.no # in.decl.no
    \/ \E k \in 1..Len(in.decl.dims) : in.ref.idx[k] \notin 0..in.decl.dims[k]

\* C14: reading an array element whose index in some dimension lies
\* outside 0..declared maximum (too large or negative), or whose array was
\* never declared, is a fatal error and returns no value.
C14_OutOfBoundsFatal ==
    [][(call = "declare_dim" /\ call' = "read_int" /\ OutOfRange(expr_in)) => lx'.err]_vars

\* the labels of the index whose name is nm, letter case set aside
Namesakes(L, nm) ==
    {k \in 1..L.num_labels : LowerSeq(L.labels[k].name) = LowerSeq(nm)}

\* C15: when several labels share a name, compared case-insensitively,
\* jump_label by that name puts the cursor at the body of the one whose
\* header comes last in the source, however many namesakes there are and
\* wherever they stand; it fails only when no label has the name.
C15_LastLabelWins ==
    [][\A nm \in LabelNames :
          (call' = "jump_label" /\ lx' = jump_label(lx, nm)) =>
              IF Namesakes(lx, nm) = {} THEN lx'.err
              ELSE /\ ~lx'.err
                   /\ \E k \in Namesakes(lx, nm) :
                         /\ lx'.i = lx.labels[k].start
                         /\ \A m \in Namesakes(lx, nm) :
                               lx.labels[m].hdr <= lx.labels[k].hdr
      ]_vars

\* a jump by the name "B" in a script with three labels of that name,
\* written in both letter cases, has put the cursor at the body of the third
C15_Witness ==
    /\ call = "jump_label" /\ ~lx.err
    /\ Cardinality(Namesakes(lx, <<66>>)) = 3
    /\ \E k \in Namesakes(lx, <<66>>) :
          /\ lx.i = lx.labels[k].start
          /\ \A m \in Namesakes(lx, <<66>>) \ {k} :
                /\ lx.labels[m].hdr < lx.labels[k].hdr
                /\ lx.labels[m].start < lx.i

\* the numbered files in the order 1, 01, 2, 02, ..., 99
SeriesOrder == <<"1", "01", "2", "10">>

\* what reading the files `names` one after the other appends to a buffer
RECURSIVE SeriesContent(_, _)
SeriesContent(d, names) ==
    IF names = <<>> THEN <<>>
    ELSE read_one(d[Head(names)], 0, 0).out \o SeriesContent(d, Tail(names))

\* the numbered files of the directory, in series order
NumberedFiles(in) ==
    LET ext == ExtOf(in.base)
    IN [k \in 1..Len(SelectSeq(SeriesOrder, LAMBDA st : st \in in.stems)) |->
          SelectSeq(SeriesOrder, LAMBDA st : st \in in.stems)[k] \o ext]

\* C18: after open() of a plain series the buffer is the content of the
\* base file followed by the contents of the numbered files of the same
\* extension in the order 1, 01, 2, 02, ..., 99; with no numbered file it
\* is the base file alone.
C18_BaseThenSeries ==
    call = "open" =>
        lx.buf = Decode(SeriesContent(dir, <<expr_in.base>> \o NumberedFiles(expr_in)),
                        lx.code)

\* the text with every backslash turned into a newline and every "@" dropped
Cleaned(text) ==
    SelectSeq([k \in 1..Len(text) |-> IF text[k] = ChBackslash THEN LF ELSE text[k]],
              LAMBDA c : c # ChAt)

\* what a TEXT token adds to the output when its text is written as `text`
Written(text) == IF text = <<>> THEN dia_chunks' = dia_chunks
                 ELSE dia_chunks' # <<>> /\ dia_chunks'[Len(dia_chunks')] = text

\* C19: run without --no-clean the dumper writes each TEXT token with
\* every backslash replaced by a newline and every "@" dropped; run with
\* --no-clean it writes the token text with both characters kept.
C19_CleanUnlessNoClean ==
    [][(dia_pc = "loop" /\ tok'.kind = "text") =>
          IF dia_no_clean THEN Written(tok'.text) ELSE Written(Cleaned(tok'.text))
      ]_vars

\* C16: with spb_mode = copy process_file_bytes never returns the status
\* spb_converted or spb_converted_flag, whatever the entry and its
\* compression flag.
C16_CopyNeverConverts ==
    (aex_res # AexNone /\ aex_args.spb_mode = "copy") =>
        aex_res.status \notin {"spb_converted", "spb_converted_flag"}

\* C17: for an entry whose name has the extension .bmp, whatever its
\* compression flag, should_write is true only when the bytes to write
\* begin with "BM"; otherwise should_write is false and the status is a
\* skip reason.
C17_BmpWritesOnlyBmp ==
    (aex_res # AexNone /\ SuffixLower(aex_entry.name) = <<98, 109, 112>>) =>
        IF aex_res.should_write
        THEN aex_res.out.ok /\ Len(aex_res.out.bytes) >= 2
             /\ SubSeq(aex_res.out.bytes, 1, 2) = StrBM
        ELSE aex_res.status \in {"spb_skip_implausible", "spb_skip_mismatch",
                                 "spb_skip_policy", "spb_skip_timeout", "spb_skip_error"}

\* C20: with --spb-timeout-ms 0 the SPB decoder runs without a deadline, so
\* no entry ends with the status spb_skip_timeout.
C20_ZeroIsUnlimited ==
    (aex_res # AexNone /\ aex_args.spb_timeout_ms = 0) =>
        aex_res.status # "spb_skip_timeout"

\* the entry is written as the 64-byte BMP with an LZSS status
Bmp64Extracted ==
    /\ aex_res.should_write
    /\ aex_res.out.ok
    /\ Len(aex_res.out.bytes) = 64
    /\ SubSeq(aex_res.out.bytes, 1, 2) = StrBM
    /\ aex_res.status \in {"lzss_decompressed", "lzss_decompressed_flag"}

\* C21 as stated: a .bmp entry whose payload is the magic A1 53 followed
\* by the stream that codes "BM" and 62 zero bytes as literals, with
\* expanded_size 64, is extracted as a 64-byte file beginning with "BM".
C21_MagicThenStream ==
    (/\ aex_res # AexNone
     /\ SuffixLower(aex_entry.name) = <<98, 109, 112>>
     /\ aex_entry.data = StrLzMagic \o Bmp64Stream
     /\ aex_entry.expanded_size = 64) => Bmp64Extracted

\* C21 amended: a .bmp entry whose compression flag is not 4 and whose
\* payload is the stream that codes "BM" and 62 zero bytes as literals, the
\* first two bytes of which are the magic A1 53, with expanded_size 64, is
\* extracted as that 64-byte BMP, with the status lzss_decompressed_flag
\* for the flag 2 and lzss_decompressed otherwise.
C21_StreamIsMagic ==
    (/\ aex_res # AexNone
     /\ SuffixLower(aex_entry.name) = <<98, 109, 112>>
     /\ aex_entry.compression_flag # 4
     /\ aex_entry.data = Bmp64Stream
     /\ aex_entry.expanded_size = 64) =>
        /\ SubSeq(aex_entry.data, 1, 2) = StrLzMagic
        /\ Bmp64Extracted
        /\ aex_res.out.bytes = Bmp64
        /\ aex_res.status = IF aex_entry.compression_flag = 2
                            THEN "lzss_decompressed_flag" ELSE "lzss_decompressed"

\* the stream entry was extracted by the heuristic path and by the flag path
C21_Witness ==
    /\ aex_res # AexNone
    /\ aex_entry.data = Bmp64Stream /\ aex_entry.expanded_size = 64
    /\ aex_entry.compression_flag = 0
    /\ aex_res.status = "lzss_decompressed" /\ aex_res.out.bytes = Bmp64

\* C22: the 2x1 SPB file in which each plane is coded as the first byte 0xFF
\* and one nbit = 0 run -- with the bit reader running on across the planes
\* these are the bytes 00 02 00 01 FF 1F E3 FC -- converts to a BMP of 62
\* bytes (54 of header, one row of 6 pixel bytes and 2 of padding) whose pixel
\* data is FF FF FF FF FF FF 00 00
PixelBytes(res) == SubSeq(res.bmp, 55, Len(res.bmp))
WhiteRow == <<255, 255, 255, 255, 255, 255, 0, 0>>
C22_SingleColour62 ==
    (spb_res # SpbNone /\ HasAt(spb, SingleColourSpb(2, 1, 255), 0)) =>
        /\ HasAt(spb, <<0, 2, 0, 1, 255, 31, 227, 252>>, 0)
        /\ spb_res.status = "ok"
        /\ Len(spb_res.bmp) = 62
        /\ PixelBytes(spb_res) = WhiteRow

\* C22 as stated: the file begins 00 02 00 01 FF 00, or codes each plane as
\* 0xFF and one nbit = 0 run, and the BMP has 60 bytes
C22_SingleColour60 ==
    (spb_res # SpbNone
     /\ (HasAt(spb, <<0, 2, 0, 1, 255, 0>>, 0)
         \/ HasAt(spb, SingleColourSpb(2, 1, 255), 0))) =>
        /\ spb_res.status = "ok"
        /\ Len(spb_res.bmp) = 60
        /\ PixelBytes(spb_res) = WhiteRow

C22_Witness ==
    /\ spb = SingleColourSpb(2, 1, 255)
    /\ spb_res # SpbNone /\ spb_res.status = "ok"
    /\ \A n \in 1..3 : spb_res.planes[n] = <<255, 255>>
    /\ PixelBytes(spb_res) = WhiteRow

\* C23: a .bmp entry of compression flag 0 whose payload begins "BM" is
\* written byte for byte as stored, with status raw_bmp, whatever its
\* expanded_size and the SPB options are
StoredBmp ==
    /\ aex_res # AexNone
    /\ SuffixLower(aex_entry.name) = <<98, 109, 112>>
    /\ aex_entry.compression_flag = 0
    /\ HasAt(aex_entry.data, StrBM, 0)
C23_RawBmpVerbatim ==
    StoredBmp =>
        /\ aex_res.should_write /\ aex_res.out.ok
        /\ aex_res.out.bytes = aex_entry.data
        /\ aex_res.status = "raw_bmp"

C23_Witness ==
    /\ StoredBmp
    /\ aex_entry.data = StrBM \o <<161, 83, 64>>
    /\ aex_entry.expanded_size = 2
    /\ aex_args.spb_mode = "convert" /\ aex_args.spb_skip_plausibility
    /\ aex_res.status = "raw_bmp" /\ aex_res.out.bytes = aex_entry.data

\* C24: the entries of a volume are handled in the order of the entry table;
\* an entry that fails (a short read of its payload, or any other exception)
\* fails alone, every later entry being handled as if it had not; and the
\* file handle is closed on every way out of extract_volume
Handled(k) == [i |-> k - 1, line |-> EntryOutcome(vol_file, vol_opts, vol_file.entries[k])]
C24_EntriesInOrder ==
    /\ vol_pc \in {"returned", "raised"} => ~vol_open
    /\ vol_pc = "loop" => vol_open
    /\ (vol_pc = "loop" /\ vol_opts.only_index = None) =>
          /\ Len(vol_log) = vol_i
          /\ \A k \in 1..vol_i : vol_log[k] = Handled(k)
    /\ (vol_pc = "returned" /\ vol_opts.only_index = None) =>
          /\ Len(vol_log) = Len(vol_file.entries)
          /\ \A k \in 1..Len(vol_log) : vol_log[k] = Handled(k)
    /\ (vol_pc = "returned" /\ vol_opts.only_index # None) =>
          vol_log = IF vol_opts.only_index < Len(vol_file.entries)
                    THEN <<Handled(vol_opts.only_index + 1)>> ELSE <<>>

\* a short read of the first entry, then a second entry that is written
C24_Witness ==
    /\ vol_pc = "returned" /\ ~vol_open /\ vol_opts.only_index = None
    /\ Len(vol_log) = 2
    /\ BytesRead(vol_file, vol_file.entries[1]) < vol_file.entries[1].stored_size
    /\ vol_log[1].line = "error" /\ vol_log[2].line = "written"

\* C25: after every token of next() that is not text (a comment, a label, a
\* mark, a newline or a command) the cursor has passed the spaces and tabs
\* after the token, at most one comma and the spaces and tabs after it, and
\* END_COMMA is set in the end flags exactly when a comma was passed
AtBlank(b, i) == i < Len(b) /\ At(b, i) \in {SPACE, TAB}
AtComma(b, i) == i < Len(b) /\ At(b, i) = ChComma
CommaPassed(b, i) ==
    \E k \in 0..(i - 1) : At(b, k) = ChComma /\ \A m \in (k + 1)..(i - 1) : AtBlank(b, m)
C25_CommaAfterNonText ==
    (call = "next" /\ tok.kind \in {"comment", "label", "mark", "nl", "cmd"}) =>
        /\ ~AtBlank(lx.buf, lx.i)
        /\ tok.end = lx.end
        /\ IF lx.end % 2 = 1 THEN CommaPassed(lx.buf, lx.i) ELSE ~AtComma(lx.buf, lx.i)

\* C26: in a delta group (nbit # 0) no symbol is read once the plane holds
\* width * height pixels, so the next plane starts at the bit after the code
\* of the last pixel.  Stated for a first plane of 2 to 4 pixels that is its
\* first byte and one delta group: the group reads one symbol for each pixel
\* after the first.
FirstNbit == spb[6] \div 32
FirstMaskBits == IF FirstNbit = 7 THEN 1 ELSE 0
FirstMask == IF FirstNbit = 7 THEN ((spb[6] \div 16) % 2) + 1 ELSE FirstNbit + 2
OneDeltaGroup ==
    /\ spb_res # SpbNone /\ spb_res.status = "ok"
    /\ spb_res.width * spb_res.height \in 2..4
    /\ Len(spb) >= 6 /\ FirstNbit # 0
    /\ ~spb_res.ends[1].eof
C26_NoSymbolAfterLast ==
    OneDeltaGroup =>
        spb_res.ends[1].bit =
            8 + 3 + FirstMaskBits + FirstMask * (spb_res.width * spb_res.height - 1)

\* C27: whatever the buffer holds, and in either expand_in_text mode, a
\* next() that returns a token other than EOF leaves the cursor further on
\* than it found it
C27_NextAdvances ==
    [][(call' = "next" /\ ~lx'.err /\ tok'.kind # "eof") => lx'.i > lx.i]_vars

\* C28: once the script is open, after any calls of next(), peek(), seek()
\* and jump_label() the line counter of the lexer is the number of LF that
\* lie before the cursor, and the line of a token is the number of LF that
\* lie before the token
NewlinesBefore(b, pos) == Cardinality({k \in 1..Len(b) : k <= pos /\ b[k] = LF})
C28_LineCountsNewlines ==
    Opened =>
        /\ lx.line = NewlinesBefore(lx.buf, lx.i)
        /\ call \in {"next", "peek"} => tok.line = NewlinesBefore(lx.buf, tok.pos)

\* C29: peek() changes nothing of the lexer that later tokens depend on: the
\* token the next next() returns (kind, text, pos, line, end, wait_at and
\* color) is the one it would have returned without the peek(), and the
\* current Ponscripter colour is the same after peek() as before
C29_PeekLeavesNoTrace ==
    [][(call' = "peek" /\ ~lx'.err) =>
          /\ lx'.cur_color = lx.cur_color
          /\ next_token(lx').tok = next_token(lx).tok]_vars

\* C30: throughout an LZSS decode the ring has exactly 256 cells; the cursor
\* starts at 239 and is always (239 + the number of bytes emitted) mod 256;
\* every emitted byte was stored at the cursor before the cursor moved on
\* (so cell (239 + k - 1) mod 256 holds byte k of the output, and every other
\* cell its initial zero); and byte k of a back-reference is the content of
\* cell (offset + k) mod 256 at the time the k bytes before it of the same
\* copy have been stored
CellOf(k) == (239 + k - 1) % 256
\* the ring when the first m bytes of the output out have been stored
RingAfter(out, m) ==
    [c \in 0..255 |-> IF \E k \in 1..m : CellOf(k) = c
                      THEN out[CHOOSE k \in 1..m : CellOf(k) = c] ELSE 0]
C30_RingCursor ==
    /\ DOMAIN lz_ring = 0..255
    /\ lz_bufpos = (239 + Len(lz_out)) % 256
    /\ lz_ring = RingAfter(lz_out, Len(lz_out))
C30_CopyReadsOwnBytes ==
    [][(lz_pc = "run" /\ Len(lz_out) < lz_size /\ LzIter.kind = "backref") =>
          \A k \in 0..(Len(lz_out') - Len(lz_out) - 1) :
              lz_out'[Len(lz_out) + k + 1] =
                  RingAfter(lz_out', Len(lz_out) + k)[(LzIter.offset + k) % 256]]_vars
StreamBits(data) ==
    [k \in 1..(8 * Len(data)) |-> (data[((k - 1) \div 8) + 1] \div (2 ^ (7 - ((k - 1) % 8)))) % 2]
RECURSIVE BitsValue(_)
BitsValue(bits) ==
    IF bits = <<>> THEN 0
    ELSE 2 * BitsValue(SubSeq(bits, 1, Len(bits) - 1)) + bits[Len(bits)]
BitsLeft(br) == 8 * Len(br.data) - BitsTaken(br)
C31_CallsRight ==
    bit_call # <<>> =>
        LET c == bit_call
            off == BitsTaken(c.before)
            g == get_bits(c.before, 8)
        IN /\ (c.op = "get_bits" /\ ~c.eof) =>
                /\ c.v = BitsValue(SubSeq(StreamBits(bit_br.data), off + 1, off + c.n))
                /\ BitsTaken(bit_br) = off + c.n
           /\ c.op = "get_u8" =>
                /\ c.eof = g.eof
                /\ ~c.eof => c.v = g.v
                /\ BitsTaken(bit_br) = BitsTaken(g.br)
           /\ c.eof => BitsLeft(c.before) < c.n
C31_RaisedStays ==
    [][(bit_raised /\ bit_call'.n >= 1) => bit_call'.eof]_vars
C31_BitReader == []C31_CallsRight /\ C31_RaisedStays
C31_Witness ==
    /\ bit_call # <<>> /\ bit_call.op = "get_u8" /\ ~bit_call.eof
    /\ bit_call.before.rem \in 1..7 /\ bit_call.v \notin BitByteSet

\* ------------------------------------------------------------------------
\* C32: however the file is split into chunks, read_one returns the
\* transformed bytes with each CR LF pair and each lone CR replaced by one
\* LF, followed by one more LF; no CR is left in it.
\* ------------------------------------------------------------------------
Transformed(raw, em) == [k \in 1..Len(raw) |-> Transform(em, raw[k], (k - 1) % 5)]
C32_NewlinesNormalized ==
    rd_pc = "done" =>
        /\ rd_st.out = NormalizeNewlines(Transformed(rd_raw, rd_em)) \o <<LF>>
        /\ rd_st.out = read_one(rd_raw, rd_em, 0).out
        /\ \A k \in 1..Len(rd_st.out) : rd_st.out[k] # CR
C32_Witness ==
    /\ rd_pc = "done" /\ rd_em = 2
    /\ \E j \in 1..Len(rd_cuts) :
          LET k == rd_cuts[j]
          IN /\ k < Len(rd_raw)
             /\ Transformed(rd_raw, rd_em)[k] = CR
             /\ Transformed(rd_raw, rd_em)[k + 1] = LF
    /\ Transformed(rd_raw, rd_em)[Len(rd_raw)] = CR

\* ------------------------------------------------------------------------
\* C33: with a deadline set, spb_to_bmp looks at the clock at least once in
\* every 16 384 pixels it emits in a row, counted over the three planes
\* (CheckPeriod pixels at the scale of the model).
\* ------------------------------------------------------------------------
C33_ClockEveryPeriod ==
    spb_res.status \in {"ok", "TimeoutError"} => spb_res.worst <= CheckPeriod

\* ------------------------------------------------------------------------
\* C34: a .bmp entry that reaches the SPB path with a header out of bounds
\* (width or height outside 1..8192, or width * height > 16 777 216) is
\* skipped with status spb_skip_implausible.
\* ------------------------------------------------------------------------
HeaderOutOfBounds(data) ==
    /\ Len(data) >= 4
    /\ LET w == data[1] * 256 + data[2]
           h == data[3] * 256 + data[4]
       IN w < 1 \/ w > 8192 \/ h < 1 \/ h > 8192 \/ w * h > 16777216
\* the statuses of the paths that come before the SPB path
EarlierPaths ==
    {"nbz_payload", "nbz_decompressed", "raw_bmp", "bz2_decompressed",
     "lzss_decompressed", "lzss_decompressed_flag", "spb_converted_flag"}
ReachedSpbPath ==
    /\ aex_res # AexNone
    /\ SuffixLower(aex_entry.name) = <<98, 109, 112>>
    /\ aex_res.status \notin EarlierPaths
\* as claimed: for every setting of the policy flags
C34_AlwaysImplausible ==
    (ReachedSpbPath /\ HeaderOutOfBounds(aex_entry.data)) =>
        aex_res.status = "spb_skip_implausible"
\* as the code has it: with --spb-skip-plausibility off the status is
\* spb_skip_implausible whatever spb_mode and --spb-skip-sizecheck are; with
\* it on the entry is skipped all the same, under another status
C34_ImplausibleUnlessSkipped ==
    (ReachedSpbPath /\ HeaderOutOfBounds(aex_entry.data)) =>
        /\ ~aex_res.should_write
        /\ IF aex_args.spb_skip_plausibility
           THEN aex_res.status \in {"spb_skip_mismatch", "spb_skip_policy", "spb_skip_error"}
           ELSE aex_res.status = "spb_skip_implausible"
C34_Witness ==
    /\ ReachedSpbPath /\ HeaderOutOfBounds(aex_entry.data)
    /\ aex_entry.data[1] = 16
    /\ ~aex_args.spb_skip_plausibility /\ aex_args.spb_skip_sizecheck
    /\ aex_args.spb_mode = "convert" /\ aex_entry.compression_flag = 1
    /\ aex_res.status = "spb_skip_implausible"

\* ------------------------------------------------------------------------
\* C35: for all integers a and b, b # 0, of either sign, the evaluator's
\* quotient and remainder agree: (a / b) * b + (a mod b) = a.
\* ------------------------------------------------------------------------
SignedNums == ExprNums \cup {-v : v \in ExprNums}
Literal(v) == IF v < 0 THEN <<Sym("-"), Num(-v)>> ELSE <<Num(v)>>
C35_DivModAgree ==
    \A a \in SignedNums, b \in SignedNums \ {0}, o \in {"/", "mod"} :
        (call = "read_int" /\ expr_in = Literal(a) \o <<Sym(o)>> \o Literal(b)) =>
            LET q == IF o = "/" THEN rv ELSE calc(a, DIV, b)
                r == IF o = "mod" THEN rv ELSE calc(a, MOD, b)
            IN q * b + r = a

\* ------------------------------------------------------------------------
\* C36: in a plain series every existing numbered file (N.ext or 0N.ext,
\* N in 1..99) contributes its content to the buffer exactly once, and the
\* files appear in increasing N.
\* ------------------------------------------------------------------------
\* the orders of the stems of the model that are increasing in N
OrdersByNumber == { <<"1", "01", "2", "10">>, <<"01", "1", "2", "10">> }
FilesInOrder(in, ord) ==
    LET there == SelectSeq(ord, LAMBDA st : st \in in.stems)
    IN [k \in 1..Len(there) |-> there[k] \o ExtOf(in.base)]
C36_EachFileOnce ==
    (call = "open" /\ expr_in.stems # {}) =>
        \E ord \in OrdersByNumber :
            lx.buf = Decode(SeriesContent(dir, FilesInOrder(expr_in, ord)), lx.code)

\* ------------------------------------------------------------------------
\* C38: jump_label on a name that is not in the label index fails fatally
\* for that call and leaves the cursor, the line counter and the end flags
\* of the lexer as they were before the call.
\* ------------------------------------------------------------------------
C38_FailedJumpMovesNothing ==
    [][\A nm \in LabelNames :
          (call' = "jump_label" /\ lx' = jump_label(lx, nm) /\ Namesakes(lx, nm) = {}) =>
              /\ lx'.err
              /\ lx'.i = lx.i /\ lx'.line = lx.line /\ lx'.end = lx.end
      ]_vars
C38_Witness ==
    /\ call = "jump_label" /\ lx.err
    /\ lx.i > 0 /\ lx.line > 0 /\ lx.end # END_NONE

\* ------------------------------------------------------------------------
\* C39: every token next() returns, TEXT tokens included, has as its pos
\* the offset of its first character: the cursor once the leading blanks
\* and tabs are passed.
\* ------------------------------------------------------------------------
C39_PosIsTokenStart ==
    [][(call' = "next" /\ ~lx'.err) => tok'.pos = skip_ws(lx.buf, lx.i)]_vars

\* ------------------------------------------------------------------------
\* C40: with the language mode a lexer is constructed with (English), a
\* line that begins with langjp is returned whole as one COMMENT token, and
\* a line that begins with langen is not made a comment: its first token is
\* the CMD token langen.
\* ------------------------------------------------------------------------
AtLineStart(b, i) == i = 0 \/ At(b, i - 1) = LF
C40_EnglishGate ==
    [][(call' = "next" /\ ~lx'.err /\ AtLineStart(lx.buf, lx.i)) =>
          LET i == skip_ws(lx.buf, lx.i)
          IN /\ StartsWith(lx.buf, StrLangjp, i) =>
                  /\ tok'.kind = "comment"
                  /\ tok'.text = Slice(lx.buf, i, LineEnd(lx.buf, i) + 1)
             /\ StartsWith(lx.buf, StrLangen, i) =>
                  /\ tok'.kind = "cmd"
                  /\ tok'.text = StrLangen
      ]_vars

\* ------------------------------------------------------------------------
\* C37: in the runner a gosub, direct or after an if, whose target label is
\* not in the index leaves the call stack as it was; so at every moment the
\* call stack holds exactly the gosubs that jumped and have not returned
\* yet, and a return resumes right after the most recent of them.
\* ------------------------------------------------------------------------
ResumePoints(cs) == [k \in 1..Len(cs) |-> cs[k][1]]
C37_FailedGosubKeepsStack ==
    /\ [](run_pc \in {"loop", "done"} => ResumePoints(callstack) = run_open)
    /\ [][(run_last'.cmd = "gosub" /\ run_last'.has /\ ~run_last'.found)
            => callstack' = callstack]_vars

====
